---- MODULE Spec2Model ----
(***************************************************************************)
(* TabTab pinyin input method: the dictionary store (DictionaryManager),   *)
(* the segmentation engine and candidate ranker (PinyinEngine) and the     *)
(* composition session (InputManager), modelled from src/tabtab.           *)
(*                                                                         *)
(* Representation.  A pinyin string is a sequence of one-letter strings    *)
(* (<<"y","i">> is "yi").  A word or phrase is a sequence of hanzi, each   *)
(* hanzi written as an ASCII gloss (<<"right","duty">> is the two-hanzi    *)
(* word yi-wu), so that the concatenation of two words and a longer word   *)
(* made of the same hanzi are the same phrase, as Python strings are.      *)
(* Time is counted in tenths of a second.                                  *)
(***************************************************************************)
EXTENDS Integers, Sequences, FiniteSets, TLC

VARIABLES
    word_dict,            \* DictionaryManager.word_dict: insertion-ordered <<key, words>> pairs
    word_freq_dict,       \* DictionaryManager.word_freq_dict: <<hanzi, key>> -> frequency
    pinyin_buffer,        \* InputManager.pinyin_buffer
    candidates,           \* InputManager.candidates (the visible page)
    full_candidates,      \* InputManager.full_candidates
    current_page,         \* InputManager.current_page
    is_active,            \* InputManager.is_active
    ai_completions,       \* InputManager.ai_completions
    is_ai_mode,           \* InputManager.is_ai_mode
    last_input_text,      \* InputManager.last_input_text
    last_input_pinyin,    \* InputManager.last_input_pinyin
    ai_selected_index,    \* CandidateWindow.ai_selected_index
    ai_suggestions,       \* CandidateWindow.ai_suggestions
    thread_pool,          \* AIEngine.thread_pool: the AICompletionWorkers not yet run to their end
    tab_elapsed,          \* time.time() - last_tab_time, saturated at tab_double_click_interval
    ai_elapsed,           \* time.time() - last_ai_request_time, saturated at ai_request_cooldown
    emitted,              \* the texts the last step handed to TextInput.input_text
    requested             \* the texts the last step asked AIEngine.get_completions for

vars == <<word_dict, word_freq_dict, pinyin_buffer, candidates, full_candidates,
          current_page, is_active, ai_completions, is_ai_mode, last_input_text,
          last_input_pinyin, ai_selected_index, ai_suggestions, thread_pool,
          tab_elapsed, ai_elapsed, emitted, requested>>

----------------------------------------------------------------------------
(* Python list helpers *)

\* x in list
InList(x, list) == \E i \in 1..Len(list) : list[i] = x

\* list[:n] for n >= 0
Take(list, n) == SubSeq(list, 1, IF n < Len(list) THEN n ELSE Len(list))

\* list.index(x), 0-based, for x in list
IndexOf(x, list) == (CHOOSE i \in 1..Len(list) : list[i] = x /\ \A j \in 1..(i - 1) : list[j] # x) - 1

\* x put into a list sorted by score, highest first, ahead of the entries that score
\* the same
InsertByScoreAheadOfTies(sorted, x) ==
    LET k == Cardinality({j \in 1..Len(sorted) : sorted[j][2] > x[2]})
    IN SubSeq(sorted, 1, k) \o <<x>> \o SubSeq(sorted, k + 1, Len(sorted))

\* x put into a list sorted by score, highest first, behind the entries that score
\* the same or higher
InsertByScore(sorted, x) ==
    LET k == Cardinality({j \in 1..Len(sorted) : sorted[j][2] >= x[2]})
    IN SubSeq(sorted, 1, k) \o <<x>> \o SubSeq(sorted, k + 1, Len(sorted))

\* the entries of pairs put into sorted one after the other (the list is halved to
\* keep the evaluation shallow; the entries are still taken in list order)
RECURSIVE InsertAll(_, _)
InsertAll(sorted, pairs) ==
    IF Len(pairs) = 0 THEN sorted
    ELSE IF Len(pairs) = 1 THEN InsertByScore(sorted, pairs[1])
    ELSE LET h == Len(pairs) \div 2
         IN CHOOSE r \in {InsertAll(front, SubSeq(pairs, h + 1, Len(pairs))) :
                              front \in {InsertAll(sorted, SubSeq(pairs, 1, h))}} : TRUE

\* pairs.sort(key=lambda p: p[1], reverse=True) on <<item, score>> pairs: Python's sort
\* is stable, and with reverse=True equal scores keep their original order
SortByScoreDesc(pairs) == InsertAll(<<>>, pairs)

\* [item for item, score in pairs]
Items(pairs) == [k \in 1..Len(pairs) |-> pairs[k][1]]

\* the concatenation of a list of lists, in order
RECURSIVE Flatten(_)
Flatten(lists) == IF lists = <<>> THEN <<>> ELSE Head(lists) \o Flatten(Tail(lists))

\* key.startswith(prefix)
StartsWith(key, prefix) == Len(prefix) <= Len(key) /\ SubSeq(key, 1, Len(prefix)) = prefix

\* list, then each x of more appended unless x is already in the list (more is halved
\* to keep the evaluation shallow; its entries are still taken in list order)
RECURSIVE ExtendNew(_, _)
ExtendNew(list, more) ==
    IF Len(more) = 0 THEN list
    ELSE IF Len(more) = 1 THEN (IF InList(more[1], list) THEN list ELSE Append(list, more[1]))
    ELSE LET h == Len(more) \div 2
         IN CHOOSE r \in {ExtendNew(front, SubSeq(more, h + 1, Len(more))) :
                              front \in {ExtendNew(list, SubSeq(more, 1, h))}} : TRUE

\* the list as it is, keeping repeated entries
UniqueKeepingRepeats(list) == list

\* the order-preserving de-duplication of a list (first occurrence wins)
Unique(list) == ExtendNew(<<>>, list)

----------------------------------------------------------------------------
(* DictionaryManager *)

\* the frequency a line without a frequency field, or with a non-integer one, is given
DefaultFreq == 1

\* A dictionary source is the list of its entry lines after the YAML header; a line is
\* <<hanzi, pinyin with spaces, frequency>>.  Two sources in priority order: a curated
\* base dictionary and a bulk dictionary that repeats some of its entries.
BaseDict ==
    << <<<<"already">>, <<"y","i">>, 95>>,
       <<<<"one">>, <<"y","i">>, 100>>,
       <<<<"by">>, <<"y","i">>, 90>>,
       <<<<"idea">>, <<"y","i">>, 80>>,
       <<<<"right">>, <<"y","i">>, 80>>,
       <<<<"medic">>, <<"y","i">>, 85>>,
       <<<<"easy">>, <<"y","i">>, 50>>,
       <<<<"none">>, <<"w","u">>, 70>>,
       <<<<"five">>, <<"w","u">>, 90>>,
       <<<<"right","duty">>, <<"y","i"," ","w","u">>, 60>>,
       <<<<"idea","right">>, <<"y","i"," ","y","i">>, 40>> >>

BulkDict ==
    << <<<<"one">>, <<"y","i">>, 7>>,
       <<<<"duty">>, <<"w","u">>, 30>>,
       <<<<"medic","duty">>, <<"y","i"," ","w","u">>, 20>>,
       <<<<"none","doubt">>, <<"w","u"," ","y","i">>, 65>>,
       <<<<"one","one">>, <<"y","i"," ","y","i">>, 45>>,
       <<<<"five">>, <<"w","u">>, 3>> >>

DictSources == <<BaseDict, BulkDict>>

\* pinyin_with_spaces.replace(" ", "")
RemoveSpaces(s) == SelectSeq(s, LAMBDA c : c # " ")

HasKey(wd, key) == \E i \in 1..Len(wd) : wd[i][1] = key

\* DictionaryManager.lookup: word_dict.get(pinyin_str); None is written <<>> (every
\* caller only tests the result for truth, and no key ever holds an empty list)
Lookup(wd, key) ==
    IF HasKey(wd, key) THEN wd[CHOOSE i \in 1..Len(wd) : wd[i][1] = key][2] ELSE <<>>

\* DictionaryManager.get_word_frequency
GetWordFrequency(wf, hanzi, key) ==
    IF <<hanzi, key>> \in DOMAIN wf THEN wf[<<hanzi, key>>] ELSE DefaultFreq

\* one entry line registered with the frequency of the latest line of the pair
LoadLineLastWins(st, line) ==
    LET hanzi == line[1]
        key == RemoveSpaces(line[2])
        freq == line[3]
        wd1 == IF HasKey(st.wd, key) THEN st.wd ELSE Append(st.wd, <<key, <<>>>>)
        at == CHOOSE i \in 1..Len(wd1) : wd1[i][1] = key
    IN [wd |-> IF InList(hanzi, wd1[at][2]) THEN wd1
               ELSE [wd1 EXCEPT ![at] = <<key, Append(wd1[at][2], hanzi)>>],
        wf |-> [p \in DOMAIN st.wf \cup {<<hanzi, key>>} |->
                   IF p = <<hanzi, key>> THEN freq ELSE st.wf[p]]]

\* one entry line registered with a new word put ahead of the words of the key
LoadLineNewWordFirst(st, line) ==
    LET hanzi == line[1]
        key == RemoveSpaces(line[2])
        freq == line[3]
        wd1 == IF HasKey(st.wd, key) THEN st.wd ELSE Append(st.wd, <<key, <<>>>>)
        at == CHOOSE i \in 1..Len(wd1) : wd1[i][1] = key
    IN IF InList(hanzi, wd1[at][2])
       THEN [wd |-> wd1, wf |-> st.wf]
       ELSE [wd |-> [wd1 EXCEPT ![at] = <<key, <<hanzi>> \o wd1[at][2]>>],
             wf |-> [p \in DOMAIN st.wf \cup {<<hanzi, key>>} |->
                        IF p = <<hanzi, key>> THEN freq ELSE st.wf[p]]]

\* one entry line registered without looking whether the key has the word already
LoadLineRepeating(st, line) ==
    LET hanzi == line[1]
        key == RemoveSpaces(line[2])
        freq == line[3]
        wd1 == IF HasKey(st.wd, key) THEN st.wd ELSE Append(st.wd, <<key, <<>>>>)
        at == CHOOSE i \in 1..Len(wd1) : wd1[i][1] = key
    IN [wd |-> [wd1 EXCEPT ![at] = <<key, Append(wd1[at][2], hanzi)>>],
        wf |-> [p \in DOMAIN st.wf \cup {<<hanzi, key>>} |->
                   IF p \in DOMAIN st.wf THEN st.wf[p] ELSE freq]]

\* one entry line of load_dictionary, on the store st = [wd, wf]
LoadLine(st, line) ==
    LET hanzi == line[1]
        key == RemoveSpaces(line[2])
        freq == line[3]
        wd1 == IF HasKey(st.wd, key) THEN st.wd ELSE Append(st.wd, <<key, <<>>>>)
        at == CHOOSE i \in 1..Len(wd1) : wd1[i][1] = key
    IN IF InList(hanzi, wd1[at][2])
       THEN [wd |-> wd1, wf |-> st.wf]
       ELSE [wd |-> [wd1 EXCEPT ![at] = <<key, Append(wd1[at][2], hanzi)>>],
             wf |-> [p \in DOMAIN st.wf \cup {<<hanzi, key>>} |->
                        IF p = <<hanzi, key>> THEN freq ELSE st.wf[p]]]

\* DictionaryManager.load_dictionary: the lines of one source, in order
RECURSIVE LoadDictionary(_, _)
LoadDictionary(st, lines) ==
    IF lines = <<>> THEN st
    ELSE CHOOSE r \in {LoadDictionary(next, Tail(lines)) :
                           next \in {LoadLine(st, Head(lines))}} : TRUE

\* DictionaryManager.load_dictionaries: the sources, in priority order
RECURSIVE LoadDictionaries(_, _)
LoadDictionaries(st, sources) ==
    IF sources = <<>> THEN st
    ELSE LoadDictionaries(LoadDictionary(st, Head(sources)), Tail(sources))

EmptyStore == [wd |-> <<>>, wf |-> <<>>]

\* exact_matches.sort(key=frequency, reverse=True): sorts the list stored under the key
SortedByFrequency(wf, words, key) ==
    Items(SortByScoreDesc([k \in 1..Len(words) |-> <<words[k], GetWordFrequency(wf, words[k], key)>>]))

\* the store after a get_candidates(key) that sorted the stored list by frequency
\* ascending
DictAfterGetCandidatesAscending(wd, wf, key) ==
    [i \in 1..Len(wd) |->
        IF wd[i][1] = key
        THEN LET sorted == SortedByFrequency(wf, wd[i][2], key)
             IN <<key, [k \in 1..Len(sorted) |-> sorted[Len(sorted) + 1 - k]]>>
        ELSE wd[i]]

\* the store after DictionaryManager.get_candidates(key): lookup returns the stored list
\* itself, so the sort of the exact matches reorders the words stored under the key
DictAfterGetCandidates(wd, wf, key) ==
    [i \in 1..Len(wd) |->
        IF wd[i][1] = key THEN <<key, SortedByFrequency(wf, wd[i][2], key)>> ELSE wd[i]]

\* the prefix matches of DictionaryManager.get_candidates, before their sort: every
\* word of every key that starts with pinyin_str, in store order, unless it is among
\* the exact matches
PrefixMatches(wd, wf, key, exact) ==
    Flatten([i \in 1..Len(wd) |->
        IF StartsWith(wd[i][1], key)
        THEN LET found == SelectSeq(wd[i][2], LAMBDA h : ~InList(h, exact))
             IN [k \in 1..Len(found) |-> <<found[k], GetWordFrequency(wf, found[k], wd[i][1])>>]
        ELSE <<>>])

\* get_candidates of the dictionary manager with the prefix matches left in store order
DictGetCandidatesPrefixUnsorted(wd, wf, key, max_count) ==
    LET exact == SortedByFrequency(wf, Lookup(wd, key), key)
        all == exact \o Items(PrefixMatches(wd, wf, key, exact))
    IN IF max_count > 0 THEN Take(all, max_count) ELSE all

\* get_candidates of the dictionary manager returning every match whatever max_count
DictGetCandidatesUnlimited(wd, wf, key, max_count) ==
    LET exact == SortedByFrequency(wf, Lookup(wd, key), key)
    IN exact \o Items(SortByScoreDesc(PrefixMatches(wd, wf, key, exact)))

\* DictionaryManager.get_candidates(pinyin_str, max_count): the list it returns
DictGetCandidates(wd, wf, key, max_count) ==
    LET exact == SortedByFrequency(wf, Lookup(wd, key), key)
        all == exact \o Items(SortByScoreDesc(PrefixMatches(wd, wf, key, exact)))
    IN IF max_count > 0 THEN Take(all, max_count) ELSE all

----------------------------------------------------------------------------
(* PinyinEngine *)

\* PinyinEngine.common_phrases, restricted to the keys that can be typed with the
\* modelled letters: 'yiwu': [yi-wu (duty), zhi-ze, ze-ren]
CommonPhraseKeys == {<<"y","i","w","u">>}

CommonPhrases(key) ==
    IF key = <<"y","i","w","u">>
    THEN << <<"right","duty">>, <<"post","blame">>, <<"blame","task">> >>
    ELSE <<>>

\* the bonus of the first curated phrase of a key, and its decrease per position
CuratedBonus == 10000
CuratedStep == 1000

\* the most entries a lattice cell keeps
CellCap == 30

\* PinyinEngine._get_word_score
GetWordScore(wf, word, key) ==
    LET base_score == GetWordFrequency(wf, word, key)
    IN IF key \in CommonPhraseKeys /\ InList(word, CommonPhrases(key))
       THEN base_score + CuratedBonus - IndexOf(word, CommonPhrases(key)) * CuratedStep
       ELSE base_score

\* one candidate offered to a lattice cell that evicts the oldest entry when the cell
\* is full
AddCandidateEvictingOldest(cell, candidate) ==
    IF Len(cell) < CellCap
    THEN Append(cell, candidate)
    ELSE Append(Tail(cell), candidate)

\* one candidate offered to a lattice cell that is dropped when the cell is full
AddCandidateDroppingNew(cell, candidate) ==
    IF Len(cell) < CellCap THEN Append(cell, candidate) ELSE cell

\* one candidate offered to a lattice cell: appended while the cell holds fewer than
\* CellCap entries, otherwise appended, sorted by score and cut to CellCap
AddCandidate(cell, candidate) ==
    IF Len(cell) < CellCap
    THEN Append(cell, candidate)
    ELSE SubSeq(SortByScoreDesc(Append(cell, candidate)), 1, CellCap)

\* the cell after the candidates offered to it, each added in turn (the list is halved
\* to keep the evaluation shallow; the candidates are still taken in list order)
RECURSIVE AddCandidates(_, _)
AddCandidates(cell, offered) ==
    IF Len(offered) = 0 THEN cell
    ELSE IF Len(offered) = 1 THEN AddCandidate(cell, offered[1])
    ELSE LET h == Len(offered) \div 2
         IN CHOOSE r \in {AddCandidates(front, SubSeq(offered, h + 1, Len(offered))) :
                              front \in {AddCandidates(cell, SubSeq(offered, 1, h))}} : TRUE

\* the candidates offered to cell i when the key is cut from s[j:] instead of s[j:i]
OfferedToTheEnd(wd, wf, s, i, dp) ==
    Flatten([j1 \in 1..i |->
        IF dp[j1] = <<>> THEN <<>>
        ELSE LET sub_pinyin == SubSeq(s, j1, Len(s))
                 words == Lookup(wd, sub_pinyin)
             IN Flatten([w \in 1..Len(words) |->
                    [p \in 1..Len(dp[j1]) |->
                        <<dp[j1][p][1] \o words[w],
                          dp[j1][p][2] + GetWordScore(wf, words[w], sub_pinyin)>>]])])

\* the candidates offered to cell i when only the split at the start of the string is
\* tried
OfferedFromStartOnly(wd, wf, s, i, dp) ==
    LET sub_pinyin == SubSeq(s, 1, i)
        words == Lookup(wd, sub_pinyin)
    IN Flatten([w \in 1..Len(words) |->
           [p \in 1..Len(dp[1]) |->
               <<dp[1][p][1] \o words[w],
                 dp[1][p][2] + GetWordScore(wf, words[w], sub_pinyin)>>]])

\* the candidates offered to cell i (dp holds cells 0..i-1, cell j at dp[j+1]), in the
\* order of the loops: split point j, then word, then entry of cell j
Offered(wd, wf, s, i, dp) ==
    Flatten([j1 \in 1..i |->
        IF dp[j1] = <<>> THEN <<>>
        ELSE LET sub_pinyin == SubSeq(s, j1, i)
                 words == Lookup(wd, sub_pinyin)
             IN Flatten([w \in 1..Len(words) |->
                    [p \in 1..Len(dp[j1]) |->
                        <<dp[j1][p][1] \o words[w],
                          dp[j1][p][2] + GetWordScore(wf, words[w], sub_pinyin)>>]])])

\* the lattice dp[0..n] of PinyinEngine.segment, built cell by cell
RECURSIVE Lattice(_, _, _, _)
Lattice(wd, wf, s, dp) ==
    IF Len(dp) = Len(s) + 1 THEN dp
    ELSE Lattice(wd, wf, s, Append(dp, AddCandidates(<<>>, Offered(wd, wf, s, Len(dp), dp))))

\* PinyinEngine.segment
Segment(wd, wf, s) ==
    IF s = <<>> THEN <<>>
    ELSE Items(SortByScoreDesc(Lattice(wd, wf, s, << <<<<<<>>, 0>>>> >>)[Len(s) + 1]))

\* pypinyin.pinyin(s, style=NORMAL, heteronym=True) for a string of Latin letters:
\* the library returns a text without hanzi as one unconverted item
PypinyinReadings(s) == << <<s>> >>

\* the hard-coded common_mappings of get_candidates, restricted to the keys that can
\* be typed with the modelled letters: 'yi': [one, already, by]
CommonMappings(key) ==
    IF key = <<"y","i">> THEN << <<"one">>, <<"already">>, <<"by">> >> ELSE <<>>

\* get_candidates with the segmentation results put ahead of the curated phrases
GetCandidatesSegmentFirst(wd, wf, s) ==
    IF s = <<>> THEN <<>>
    ELSE LET step1 == Segment(wd, wf, s)
             step2 == step1 \o (IF s \in CommonPhraseKeys THEN CommonPhrases(s) ELSE <<>>)
             step3 == step2 \o DictGetCandidates(wd, wf, s, -1)
             wd3 == DictAfterGetCandidates(wd, wf, s)
             readings == Flatten(PypinyinReadings(s))
             step4 == ExtendNew(step3,
                        Flatten([r \in 1..Len(readings) |-> Lookup(wd3, readings[r])]))
             step5 == ExtendNew(step4, CommonMappings(s))
         IN Unique(step5)

\* PinyinEngine.get_candidates: the list it returns.  Step 2 reads the store before
\* step 3 sorts the exact matches; step 4 reads it after
GetCandidates(wd, wf, s) ==
    IF s = <<>> THEN <<>>
    ELSE LET step1 == IF s \in CommonPhraseKeys THEN CommonPhrases(s) ELSE <<>>
             step2 == step1 \o Segment(wd, wf, s)
             step3 == step2 \o DictGetCandidates(wd, wf, s, -1)
             wd3 == DictAfterGetCandidates(wd, wf, s)
             readings == Flatten(PypinyinReadings(s))
             step4 == ExtendNew(step3,
                        Flatten([r \in 1..Len(readings) |-> Lookup(wd3, readings[r])]))
             step5 == ExtendNew(step4, CommonMappings(s))
         IN Unique(step5)

\* the store after PinyinEngine.get_candidates(s)
DictAfterEngineGetCandidates(wd, wf, s) ==
    IF s = <<>> THEN wd ELSE DictAfterGetCandidates(wd, wf, s)

----------------------------------------------------------------------------
(* InputManager: constants and inputs *)

\* InputManager.page_size
page_size == 5

\* InputManager.tab_double_click_interval (0.3 s) and ai_request_cooldown (3 s), in
\* tenths of a second
tab_double_click_interval == 3
ai_request_cooldown == 30

\* the most completions AICompletionWorker.run passes on
MaxCompletions == 3

\* the longest pinyin buffer typed, and the most workers in the thread pool at once
MaxBuf == 2
MaxInflight == 1

\* the letter keys pressed, and get_key_char(key).lower()
LetterKeys == {"y", "i", "Y"}
Lower(c) == IF c = "Y" THEN "y" ELSE c

\* the digit keys, the indexes the candidate window reports as clicked, and the
\* directions it asks a page change for
DigitKeys == {0, 1, 2, 5, 6}
ClickedIndexes == {-1, 0, 1, 4, 5}
Directions == {-1, 1}

\* how much time passes between two events, in tenths of a second
TickSteps == {15, 30}

\* what the provider's answer parses to (_parse_completions): no list, or a list of
\* texts, each a sequence of characters ("~" is a character clean_text_for_ai removes)
ParsedLists == { <<>>, << <<"ok">> >>, << <<"ok">>, <<"so", "~">>, <<"no">>, <<"hm">> >> }

\* the session as one record: the fields of InputManager, of its PinyinEngine's
\* dictionary, of its CandidateWindow and of its AIEngine, and what the event being
\* handled has handed to input_text so far
Self ==
    [word_dict |-> word_dict, pinyin_buffer |-> pinyin_buffer, candidates |-> candidates,
     full_candidates |-> full_candidates, current_page |-> current_page,
     is_active |-> is_active, ai_completions |-> ai_completions, is_ai_mode |-> is_ai_mode,
     last_input_text |-> last_input_text, last_input_pinyin |-> last_input_pinyin,
     ai_selected_index |-> ai_selected_index, ai_suggestions |-> ai_suggestions,
     thread_pool |-> thread_pool, tab_elapsed |-> tab_elapsed, ai_elapsed |-> ai_elapsed,
     emitted |-> <<>>, requested |-> <<>>]

\* the session becomes s
Becomes(s) ==
    /\ word_dict' = s.word_dict
    /\ pinyin_buffer' = s.pinyin_buffer
    /\ candidates' = s.candidates
    /\ full_candidates' = s.full_candidates
    /\ current_page' = s.current_page
    /\ is_active' = s.is_active
    /\ ai_completions' = s.ai_completions
    /\ is_ai_mode' = s.is_ai_mode
    /\ last_input_text' = s.last_input_text
    /\ last_input_pinyin' = s.last_input_pinyin
    /\ ai_selected_index' = s.ai_selected_index
    /\ ai_suggestions' = s.ai_suggestions
    /\ thread_pool' = s.thread_pool
    /\ tab_elapsed' = s.tab_elapsed
    /\ ai_elapsed' = s.ai_elapsed
    /\ emitted' = s.emitted
    /\ requested' = s.requested

----------------------------------------------------------------------------
(* InputManager: the methods, as functions from session to session *)

Min(a, b) == IF a < b THEN a ELSE b

\* a slice one entry longer than a page
PageSliceOneMore(full, page) ==
    SubSeq(full, page * page_size + 1, Min(page * page_size + page_size + 1, Len(full)))

\* full_candidates[start:end] of show_current_page_candidates
PageSlice(full, page) ==
    SubSeq(full, page * page_size + 1, Min(page * page_size + page_size, Len(full)))

\* InputManager.show_current_page_candidates: an empty page behind the last one steps
\* back a page and shows again
RECURSIVE ShowCurrentPageCandidates(_)
ShowCurrentPageCandidates(s) ==
    IF s.full_candidates = <<>> THEN [s EXCEPT !.candidates = <<>>]
    ELSE LET shown == [s EXCEPT !.candidates = PageSlice(s.full_candidates, s.current_page)]
         IN IF shown.candidates # <<>> THEN shown
            ELSE IF shown.current_page > 0
                 THEN ShowCurrentPageCandidates([shown EXCEPT !.current_page = @ - 1])
                 ELSE shown

\* InputManager.update_candidates
UpdateCandidates(s) ==
    IF s.pinyin_buffer = <<>>
    THEN [s EXCEPT !.candidates = <<>>, !.full_candidates = <<>>, !.current_page = 0]
    ELSE ShowCurrentPageCandidates(
            [s EXCEPT !.full_candidates = GetCandidates(s.word_dict, word_freq_dict, s.pinyin_buffer),
                      !.word_dict = DictAfterEngineGetCandidates(s.word_dict, word_freq_dict, s.pinyin_buffer),
                      !.current_page = 0])

\* reset_state that forgets the last input too
ResetStateForgetting(s) ==
    [s EXCEPT !.pinyin_buffer = <<>>, !.candidates = <<>>, !.full_candidates = <<>>,
              !.current_page = 0, !.is_active = FALSE, !.is_ai_mode = FALSE,
              !.ai_completions = <<>>, !.last_input_text = <<>>, !.last_input_pinyin = <<>>]

\* InputManager.reset_state
ResetState(s) ==
    [s EXCEPT !.pinyin_buffer = <<>>, !.candidates = <<>>, !.full_candidates = <<>>,
              !.current_page = 0, !.is_active = FALSE, !.is_ai_mode = FALSE,
              !.ai_completions = <<>>]

\* InputManager.deactivate
Deactivate(s) == ResetState(s)

\* exit_ai_mode that turns the mode off and keeps the completions
ExitAiModeKeepingList(s) ==
    ShowCurrentPageCandidates([s EXCEPT !.is_ai_mode = FALSE])

\* InputManager.exit_ai_mode
ExitAiMode(s) ==
    ShowCurrentPageCandidates([s EXCEPT !.is_ai_mode = FALSE, !.ai_completions = <<>>])

\* select_candidate without the test 0 <= index: a negative index counts from the end
SelectCandidateFromEnd(s, index) ==
    LET list == IF s.is_ai_mode THEN s.ai_completions ELSE s.candidates
        at == IF index < 0 THEN Len(list) + index ELSE index
    IN IF at < 0 \/ at >= Len(list) THEN s
       ELSE IF s.is_ai_mode
            THEN ExitAiMode([s EXCEPT !.emitted = Append(@, list[at + 1]),
                                      !.last_input_text = list[at + 1],
                                      !.last_input_pinyin = <<>>])
            ELSE ResetState([s EXCEPT !.emitted = Append(@, list[at + 1]),
                                      !.last_input_text = list[at + 1],
                                      !.last_input_pinyin = s.pinyin_buffer])

\* select_candidate reading the full list at index, not at the absolute index
SelectCandidateOfFirstPage(s, index) ==
    IF s.is_ai_mode
    THEN IF 0 <= index /\ index < Len(s.ai_completions)
         THEN ExitAiMode([s EXCEPT !.emitted = Append(@, s.ai_completions[index + 1]),
                                   !.last_input_text = s.ai_completions[index + 1],
                                   !.last_input_pinyin = <<>>])
         ELSE s
    ELSE IF 0 <= index /\ index < Len(s.candidates)
         THEN ResetState([s EXCEPT !.emitted = Append(@, s.full_candidates[index + 1]),
                                   !.last_input_text = s.full_candidates[index + 1],
                                   !.last_input_pinyin = s.pinyin_buffer])
         ELSE s

\* InputManager.select_candidate
SelectCandidate(s, index) ==
    IF s.is_ai_mode
    THEN IF 0 <= index /\ index < Len(s.ai_completions)
         THEN LET selected_completion == s.ai_completions[index + 1]
              IN ExitAiMode([s EXCEPT !.emitted = Append(@, selected_completion),
                                      !.last_input_text = selected_completion,
                                      !.last_input_pinyin = <<>>])
         ELSE s
    ELSE IF 0 <= index /\ index < Len(s.candidates)
         THEN LET absolute_index == s.current_page * page_size + index
                  selected_word == s.full_candidates[absolute_index + 1]
              IN ResetState([s EXCEPT !.emitted = Append(@, selected_word),
                                      !.last_input_text = selected_word,
                                      !.last_input_pinyin = s.pinyin_buffer])
         ELSE s

\* InputManager.next_page
NextPage(s) ==
    LET max_page == ((Len(s.full_candidates) + page_size - 1) \div page_size) - 1
    IN IF s.current_page < max_page
       THEN ShowCurrentPageCandidates([s EXCEPT !.current_page = @ + 1])
       ELSE s

\* previous_page that stops at the second page
PreviousPageAboveSecond(s) ==
    IF s.current_page > 1
    THEN ShowCurrentPageCandidates([s EXCEPT !.current_page = @ - 1])
    ELSE s

\* InputManager.previous_page
PreviousPage(s) ==
    IF s.current_page > 0
    THEN ShowCurrentPageCandidates([s EXCEPT !.current_page = @ - 1])
    ELSE s

\* InputManager.handle_page_change
HandlePageChange(s, direction) == IF direction > 0 THEN NextPage(s) ELSE PreviousPage(s)

\* text.strip() on a sequence of characters
RECURSIVE Strip(_)
Strip(text) ==
    IF text # <<>> /\ Head(text) = " " THEN Strip(Tail(text))
    ELSE IF text # <<>> /\ text[Len(text)] = " " THEN Strip(SubSeq(text, 1, Len(text) - 1))
    ELSE text

\* InputManager.clean_text_for_ai: letters, hanzi, spaces and . , ! ? stay
CleanTextForAi(text) == Strip(SelectSeq(text, LAMBDA c : c # "~"))

\* the text handle_tab_double_click asks a completion for; <<>> when it has none
TextForAi(s) ==
    IF s.is_active /\ s.pinyin_buffer # <<>>
    THEN s.pinyin_buffer \o <<" ">> \o (IF s.candidates # <<>> THEN s.candidates[1] ELSE <<>>)
    ELSE IF s.last_input_text # <<>>
         THEN IF s.last_input_pinyin # <<>>
              THEN s.last_input_pinyin \o <<" ">> \o s.last_input_text
              ELSE s.last_input_text
         ELSE <<>>

\* handle_tab_double_click reaching get_completions whatever time has passed since the
\* last request
IssuesRequestAtOnce(s) ==
    (s.is_active /\ s.pinyin_buffer # <<>>) \/ s.last_input_text # <<>>

\* whether handle_tab_double_click reaches ai_engine.get_completions
IssuesRequest(s) ==
    /\ (s.is_active /\ s.pinyin_buffer # <<>>) \/ s.last_input_text # <<>>
    /\ ~(s.ai_elapsed < ai_request_cooldown)

\* AIEngine.get_completions: a worker for the text joins the thread pool; the pool
\* remembers of each worker the pinyin buffer its request was issued under
GetCompletions(s, text) ==
    [s EXCEPT !.requested = Append(@, text),
              !.thread_pool = Append(@, [buffer |-> s.pinyin_buffer])]

\* InputManager.handle_tab_double_click
HandleTabDoubleClick(s) ==
    IF IssuesRequest(s)
    THEN GetCompletions([s EXCEPT !.ai_elapsed = 0], CleanTextForAi(TextForAi(s)))
    ELSE s

\* show_ai_suggestions that leaves the highlight where it was
ShowAiSuggestionsKeepingIndex(s, suggestions) ==
    IF suggestions = <<>> THEN s ELSE [s EXCEPT !.ai_suggestions = suggestions]

\* CandidateWindow.show_ai_suggestions
ShowAiSuggestions(s, suggestions) ==
    IF suggestions = <<>> THEN s
    ELSE [s EXCEPT !.ai_suggestions = suggestions, !.ai_selected_index = 0]

\* InputManager.on_ai_completions_ready
OnAiCompletionsReady(s, completions) ==
    LET entered == [s EXCEPT !.ai_completions = completions, !.is_ai_mode = TRUE]
    IN IF entered.ai_completions # <<>>
       THEN ShowAiSuggestions(entered, entered.ai_completions)
       ELSE entered

\* on_ai_error that gives the composition up
OnAiErrorResetting(s) == ResetState(s)

\* InputManager.on_ai_error
OnAiError(s) == s

\* CandidateWindow.select_next_ai and select_previous_ai
SelectNextAi(s) ==
    IF s.ai_selected_index < Len(s.ai_suggestions) - 1
    THEN [s EXCEPT !.ai_selected_index = @ + 1] ELSE s

SelectPreviousAi(s) ==
    IF s.ai_selected_index > 0 THEN [s EXCEPT !.ai_selected_index = @ - 1] ELSE s

----------------------------------------------------------------------------
(* InputManager.on_key_press, one operator per branch *)

\* a digit branch whose digit beyond the suggestions reaches the visible page
OnDigitReachingPage(s, digit) ==
    IF (s.is_active /\ s.candidates # <<>>) \/ (s.is_ai_mode /\ s.ai_completions # <<>>)
    THEN IF s.is_ai_mode /\ s.ai_completions # <<>> /\ 1 <= digit /\ digit <= Len(s.ai_completions)
         THEN SelectCandidate(s, digit - 1)
         ELSE IF s.is_active /\ s.candidates # <<>> /\ 1 <= digit /\ digit <= Len(s.candidates)
              THEN SelectCandidate([s EXCEPT !.is_ai_mode = FALSE, !.ai_completions = <<>>],
                                   digit - 1)
              ELSE s
    ELSE s

\* a digit key
OnDigit(s, digit) ==
    IF (s.is_active /\ s.candidates # <<>>) \/ (s.is_ai_mode /\ s.ai_completions # <<>>)
    THEN IF s.is_ai_mode /\ s.ai_completions # <<>> /\ 1 <= digit /\ digit <= Len(s.ai_completions)
         THEN SelectCandidate(s, digit - 1)
         ELSE IF s.is_active /\ s.candidates # <<>> /\ 1 <= digit /\ digit <= Len(s.candidates)
              THEN SelectCandidate(s, digit - 1)
              ELSE s
    ELSE s

\* the letter branch without its exit from AI mode
OnLetterInAiMode(s, key) ==
    [UpdateCandidates([s EXCEPT !.pinyin_buffer = Append(@, Lower(key))]) EXCEPT !.is_active = TRUE]

\* a letter branch that appends the letter without updating the candidates
OnLetterAppendingOnly(s, key) ==
    LET left == IF s.is_ai_mode THEN ExitAiMode(s) ELSE s
    IN [left EXCEPT !.pinyin_buffer = Append(@, Lower(key)), !.is_active = TRUE]

\* a letter key
OnLetter(s, key) ==
    LET left == IF s.is_ai_mode THEN ExitAiMode(s) ELSE s
        char == Lower(key)
    IN [UpdateCandidates([left EXCEPT !.pinyin_buffer = Append(@, char)]) EXCEPT !.is_active = TRUE]

\* the up and down keys
OnUp(s) == IF s.is_ai_mode /\ s.ai_completions # <<>> THEN SelectPreviousAi(s) ELSE s
OnDown(s) == IF s.is_ai_mode /\ s.ai_completions # <<>> THEN SelectNextAi(s) ELSE s

\* a Tab branch whose triggering press records its own time instead of resetting it
OnTabRecordingTrigger(s) ==
    IF s.tab_elapsed < tab_double_click_interval
    THEN [HandleTabDoubleClick(s) EXCEPT !.tab_elapsed = 0]
    ELSE [s EXCEPT !.tab_elapsed = 0]

\* the Tab key
OnTab(s) ==
    IF s.tab_elapsed < tab_double_click_interval
    THEN [HandleTabDoubleClick(s) EXCEPT !.tab_elapsed = tab_double_click_interval]
    ELSE [s EXCEPT !.tab_elapsed = 0]

\* the space key and the enter key
OnSpaceOrEnter(s) ==
    IF s.is_ai_mode /\ s.ai_completions # <<>> THEN SelectCandidate(s, 0)
    ELSE IF s.is_active /\ s.candidates # <<>> THEN SelectCandidate(s, 0)
    ELSE s

\* the backspace branch without its deactivate() on an emptied buffer
OnBackspaceStayingActive(s) ==
    IF s.is_ai_mode THEN ExitAiMode(s)
    ELSE IF s.is_active /\ s.pinyin_buffer # <<>>
         THEN UpdateCandidates([s EXCEPT !.pinyin_buffer = SubSeq(@, 1, Len(@) - 1)])
         ELSE s

\* a backspace branch that leaves AI mode and takes a letter off the buffer as well
OnBackspaceRemovingInAiMode(s) ==
    LET left == IF s.is_ai_mode THEN ExitAiMode(s) ELSE s
    IN IF left.is_active /\ left.pinyin_buffer # <<>>
       THEN LET popped == UpdateCandidates(
                              [left EXCEPT !.pinyin_buffer = SubSeq(@, 1, Len(@) - 1)])
            IN IF popped.pinyin_buffer = <<>> THEN Deactivate(popped) ELSE popped
       ELSE left

\* the backspace key
OnBackspace(s) ==
    IF s.is_ai_mode THEN ExitAiMode(s)
    ELSE IF s.is_active /\ s.pinyin_buffer # <<>>
         THEN LET popped == UpdateCandidates(
                                [s EXCEPT !.pinyin_buffer = SubSeq(@, 1, Len(@) - 1)])
              IN IF popped.pinyin_buffer = <<>> THEN Deactivate(popped) ELSE popped
         ELSE s

\* an ESC branch that deactivates in AI mode too
OnEscDeactivating(s) == IF s.is_ai_mode \/ s.is_active THEN Deactivate(s) ELSE s

\* an ESC branch that leaves AI mode and never deactivates
OnEscLeavingModeOnly(s) == IF s.is_ai_mode THEN ExitAiMode(s) ELSE s

\* the ESC key
OnEsc(s) ==
    IF s.is_ai_mode THEN ExitAiMode(s)
    ELSE IF s.is_active THEN Deactivate(s)
    ELSE s

\* an other-key branch that looks at the composition before the suggestion mode
OnOtherKeyCommittingFirst(s) ==
    IF s.is_active
    THEN IF s.candidates # <<>> THEN SelectCandidate(s, 0) ELSE Deactivate(s)
    ELSE IF s.is_ai_mode THEN ExitAiMode(s)
    ELSE s

\* any other key (punctuation and the like)
OnOtherKey(s) ==
    IF s.is_ai_mode THEN ExitAiMode(s)
    ELSE IF s.is_active
         THEN IF s.candidates # <<>> THEN SelectCandidate(s, 0) ELSE Deactivate(s)
         ELSE s

\* AICompletionWorker.run that emits the parsed list whole
WorkerSignalsUntruncated(failed, parsed) ==
    IF ~failed /\ Len(parsed) > 0
    THEN << [signal |-> "finished", completions |-> parsed] >>
    ELSE << [signal |-> "error", completions |-> <<>>] >>

\* the signals AICompletionWorker.run emits, in order, the provider's answer parsing
\* to the list parsed, or the request failing: finished carries the completions, error
\* carries a message and no completions
WorkerSignals(failed, parsed) ==
    IF ~failed /\ Len(parsed) > 0
    THEN << [signal |-> "finished", completions |-> Take(parsed, MaxCompletions)] >>
    ELSE << [signal |-> "error", completions |-> <<>>] >>

\* AIEngine.get_completions connects finished to completions_ready and error to
\* error_occurred, which InputManager connects to its two handlers
DeliverSignal(s, sig) ==
    IF sig.signal = "finished" THEN OnAiCompletionsReady(s, sig.completions)
    ELSE OnAiError(s)

RECURSIVE DeliverSignals(_, _)
DeliverSignals(s, signals) ==
    IF signals = <<>> THEN s
    ELSE DeliverSignals(DeliverSignal(s, Head(signals)), Tail(signals))

\* AICompletionWorker.run for worker w of the pool, the provider's answer parsing to
\* the list parsed, or the request failing
WorkerRun(s, w, failed, parsed) ==
    LET rest == [s EXCEPT !.thread_pool = SubSeq(@, 1, w - 1) \o SubSeq(@, w + 1, Len(@))]
    IN DeliverSignals(rest, WorkerSignals(failed, parsed))

----------------------------------------------------------------------------
(* The events *)

Init ==
    /\ word_dict = LoadDictionaries(EmptyStore, DictSources).wd
    /\ word_freq_dict = LoadDictionaries(EmptyStore, DictSources).wf
    /\ pinyin_buffer = <<>>
    /\ candidates = <<>>
    /\ full_candidates = <<>>
    /\ current_page = 0
    /\ is_active = FALSE
    /\ ai_completions = <<>>
    /\ is_ai_mode = FALSE
    /\ last_input_text = <<>>
    /\ last_input_pinyin = <<>>
    /\ ai_selected_index = 0
    /\ ai_suggestions = <<>>
    /\ thread_pool = <<>>
    /\ tab_elapsed = tab_double_click_interval
    /\ ai_elapsed = ai_request_cooldown
    /\ emitted = <<>>
    /\ requested = <<>>

KeyDigit ==
    /\ \E digit \in DigitKeys : Becomes(OnDigit(Self, digit))
    /\ UNCHANGED word_freq_dict

KeyLetter ==
    /\ Len(pinyin_buffer) < MaxBuf
    /\ \E key \in LetterKeys : Becomes(OnLetter(Self, key))
    /\ UNCHANGED word_freq_dict

\* the left and right keys move the candidate window's highlight only
KeyLeftRight ==
    /\ Becomes(Self)
    /\ UNCHANGED word_freq_dict

KeyUp ==
    /\ Becomes(OnUp(Self))
    /\ UNCHANGED word_freq_dict

KeyDown ==
    /\ Becomes(OnDown(Self))
    /\ UNCHANGED word_freq_dict

KeyTab ==
    /\ Len(OnTab(Self).thread_pool) <= MaxInflight
    /\ Becomes(OnTab(Self))
    /\ UNCHANGED word_freq_dict

KeySpaceOrEnter ==
    /\ Becomes(OnSpaceOrEnter(Self))
    /\ UNCHANGED word_freq_dict

KeyBackspace ==
    /\ Becomes(OnBackspace(Self))
    /\ UNCHANGED word_freq_dict

KeyEsc ==
    /\ Becomes(OnEsc(Self))
    /\ UNCHANGED word_freq_dict

KeyOther ==
    /\ Becomes(OnOtherKey(Self))
    /\ UNCHANGED word_freq_dict

\* CandidateWindow.candidate_selected -> InputManager.on_candidate_selected
CandidateSelected ==
    /\ \E index \in ClickedIndexes : Becomes(SelectCandidate(Self, index))
    /\ UNCHANGED word_freq_dict

\* CandidateWindow.page_change_requested -> InputManager.handle_page_change
PageChangeRequested ==
    /\ \E direction \in Directions : Becomes(HandlePageChange(Self, direction))
    /\ UNCHANGED word_freq_dict

\* a worker of the pool runs to its end and its signal is delivered
WorkerDone ==
    /\ thread_pool # <<>>
    /\ \E w \in 1..Len(thread_pool) : \E failed \in BOOLEAN : \E parsed \in ParsedLists :
            Becomes(WorkerRun(Self, w, failed, parsed))
    /\ UNCHANGED word_freq_dict

\* time passes
Tick ==
    /\ \E d \in TickSteps :
            Becomes([Self EXCEPT !.tab_elapsed = Min(@ + d, tab_double_click_interval),
                                 !.ai_elapsed = Min(@ + d, ai_request_cooldown)])
    /\ UNCHANGED word_freq_dict

Next ==
    \/ KeyDigit
    \/ KeyLetter
    \/ KeyLeftRight
    \/ KeyUp
    \/ KeyDown
    \/ KeyTab
    \/ KeySpaceOrEnter
    \/ KeyBackspace
    \/ KeyEsc
    \/ KeyOther
    \/ CandidateSelected
    \/ PageChangeRequested
    \/ WorkerDone
    \/ Tick

Spec == Init /\ [][Next]_vars

----------------------------------------------------------------------------
(* The engine on its own: calls of PinyinEngine and DictionaryManager on a loaded
   dictionary.  pinyin_buffer holds the argument of the last call and full_candidates
   the list it returned. *)

\* a third dictionary file: a heavy word under a curated key, and more words for wu
HeavyDict ==
    << <<<<"easy", "duty">>, <<"y", "i", " ", "w", "u">>, 20000>>,
       <<<<"noon">>, <<"w", "u">>, 55>>,
       <<<<"dance">>, <<"w", "u">>, 45>> >>

\* a dictionary file of its own: a phrase that weighs what its two words weigh
\* together, and a word with two readings that begin with the same letter
TwinDict ==
    << <<<<"none">>, <<"w", "u">>, 70>>,
       <<<<"easy">>, <<"y", "i">>, 50>>,
       <<<<"none", "easy">>, <<"w", "u", " ", "y", "i">>, 120>>,
       <<<<"easy">>, <<"y", "e">>, 40>> >>

\* the lists of dictionary files load_dictionaries is given
SourceSets == {DictSources, DictSources \o <<HeavyDict>>, <<TwinDict>>}

\* the strings the engine is asked about
Queries ==
    { <<>>, <<"y">>, <<"y", "i">>, <<"w", "u">>, <<"y", "i", "w">>,
      <<"y", "i", "w", "u">>, <<"y", "i", "y", "i">>, <<"w", "u", "y", "i">> }

\* the strings segment is asked about: those, and one long enough for a capped cell to
\* be extended further
SegmentQueries == Queries \cup { <<"y", "i", "y", "i", "w", "u">> }

\* max_count of DictionaryManager.get_candidates when the caller gives none
DefaultMaxCount == 10

\* DictionaryManager.get_candidates(pinyin_str), called without max_count
DictGetCandidatesDefault(wd, wf, key) == DictGetCandidates(wd, wf, key, DefaultMaxCount)

\* the max_count values callers pass
MaxCounts == {-1, 0, 2, DefaultMaxCount}

EngineInit ==
    /\ \E sources \in SourceSets :
        /\ word_dict = LoadDictionaries(EmptyStore, sources).wd
        /\ word_freq_dict = LoadDictionaries(EmptyStore, sources).wf
    /\ pinyin_buffer = <<>>
    /\ candidates = <<>>
    /\ full_candidates = <<>>
    /\ current_page = 0
    /\ is_active = FALSE
    /\ ai_completions = <<>>
    /\ is_ai_mode = FALSE
    /\ last_input_text = <<>>
    /\ last_input_pinyin = <<>>
    /\ ai_selected_index = 0
    /\ ai_suggestions = <<>>
    /\ thread_pool = <<>>
    /\ tab_elapsed = tab_double_click_interval
    /\ ai_elapsed = ai_request_cooldown
    /\ emitted = <<>>
    /\ requested = <<>>

session_vars ==
    <<current_page, is_active, ai_completions, is_ai_mode, last_input_text,
      last_input_pinyin, ai_selected_index, ai_suggestions, thread_pool, tab_elapsed,
      ai_elapsed, emitted, requested>>

\* PinyinEngine.get_candidates(s)
EngineGetCandidates ==
    /\ \E s \in Queries :
        /\ pinyin_buffer' = s
        /\ full_candidates' = GetCandidates(word_dict, word_freq_dict, s)
        /\ word_dict' = DictAfterEngineGetCandidates(word_dict, word_freq_dict, s)
    /\ UNCHANGED <<word_freq_dict, candidates, session_vars>>

\* PinyinEngine.segment(s)
EngineSegment ==
    /\ \E s \in SegmentQueries :
        /\ pinyin_buffer' = s
        /\ full_candidates' = Segment(word_dict, word_freq_dict, s)
    /\ UNCHANGED <<word_dict, word_freq_dict, candidates, session_vars>>

\* DictionaryManager.get_candidates(s, max_count)
ManagerGetCandidates ==
    /\ \E s \in Queries : \E max_count \in MaxCounts :
        /\ pinyin_buffer' = s
        /\ full_candidates' = DictGetCandidates(word_dict, word_freq_dict, s, max_count)
        /\ word_dict' = DictAfterGetCandidates(word_dict, word_freq_dict, s)
    /\ UNCHANGED <<word_freq_dict, candidates, session_vars>>

\* DictionaryManager.lookup(s)
ManagerLookup ==
    /\ \E s \in Queries :
        /\ pinyin_buffer' = s
        /\ full_candidates' = Lookup(word_dict, s)
    /\ UNCHANGED <<word_dict, word_freq_dict, candidates, session_vars>>

EngineNext ==
    \/ EngineGetCandidates
    \/ EngineSegment
    \/ ManagerGetCandidates
    \/ ManagerLookup

SpecEngine == EngineInit /\ [][EngineNext]_vars

----------------------------------------------------------------------------
(* DictionaryManager: dictionary files *)

\* A dictionary file is [exists, readable, lines]: whether the path exists, whether its
\* bytes decode as UTF-8, and its lines; a line is the list of its tab-separated
\* fields, a field the list of its characters (a hanzi is one character, written as
\* its gloss).
HeaderLines == << << <<"#", " ", "h">> >>, << <<"-", "-", "-">> >>, << <<".", ".", ".">> >> >>

CuratedFile ==
    [exists |-> TRUE, readable |-> TRUE, lines |-> HeaderLines \o
        << << <<"one">>, <<"y", "i">>, <<"1", "0", "0">> >>,
           << <<"already">>, <<"y", "i">>, <<"9", "5">> >>,
           << <<"none">>, <<"w", "u">>, <<"7", "0">> >>,
           << <<"right", "duty">>, <<"y", "i", " ", "w", "u">>, <<"6", "0">> >> >>]

BulkFile ==
    [exists |-> TRUE, readable |-> TRUE, lines |-> HeaderLines \o
        << << <<"one">>, <<"y", "i">>, <<"7">> >>,
           << <<"duty">>, <<"w", "u">>, <<"3", "0">> >>,
           << <<"by">>, <<"y", "i">> >>,
           << <<"medic", "duty">>, <<"y", "i", "w", "u">>, <<"2", "0">>, <<"x">> >> >>]

\* a file with a blank line, a comment, a line of one field, a non-integer frequency,
\* a repeated entry, padded fields, a line without word and a line without key
RoughFile ==
    [exists |-> TRUE, readable |-> TRUE, lines |-> HeaderLines \o
        << << <<>> >>,
           << <<"#", "c">>, <<"y", "i">>, <<"5">> >>,
           << <<"idea">> >>,
           << <<"five">>, <<"w", "u">>, <<"x">> >>,
           << <<"five">>, <<"w", "u">>, <<"9", "0">> >>,
           << <<" ", "duty">>, <<"w", "u">>, <<"-", "4", " ">> >>,
           << <<>>, <<"y", "i">>, <<"5">> >>,
           << <<"easy">>, <<>>, <<"5">> >>,
           << <<" ">>, <<>> >> >>]

OtherFile ==
    [exists |-> TRUE, readable |-> TRUE, lines |-> HeaderLines \o
        << << <<"by">>, <<"y", "i">>, <<"9", "0">> >>,
           << <<"five">>, <<"w", "u">>, <<"9", "0">> >>,
           << <<"one">>, <<"y", "i">>, <<"+", "1">> >>,
           << <<"duty">>, <<"w", "u">>, <<"3">> >> >>]

LateFile ==
    [exists |-> TRUE, readable |-> TRUE, lines |-> HeaderLines \o
        << << <<"none">>, <<"w", "u">>, <<"7">> >>,
           << <<"already">>, <<"y", "i">>, <<"9", ".", "5">> >>,
           << <<"idea">>, <<"y", "i">>, <<"8", "0">> >> >>]

MissingFile == [exists |-> FALSE, readable |-> FALSE, lines |-> <<>>]

UnreadableFile == [exists |-> TRUE, readable |-> FALSE, lines |-> CuratedFile.lines]

\* entry lines without the line that ends the header
HeadlessFile ==
    [exists |-> TRUE, readable |-> TRUE, lines |->
        << << <<"doubt">>, <<"y", "i">>, <<"6", "5">> >> >>]

Files ==
    {CuratedFile, BulkFile, RoughFile, OtherFile, LateFile, MissingFile, UnreadableFile,
     HeadlessFile}

\* the path lists load_dictionaries is given
FileLists ==
    { <<CuratedFile, MissingFile, BulkFile>>, <<UnreadableFile, HeadlessFile>>,
      <<RoughFile, LateFile>>, <<>> }

\* str.strip() on one field
RECURSIVE LStrip(_)
LStrip(field) ==
    IF field # <<>> /\ Head(field) = " " THEN LStrip(Tail(field)) ELSE field

RECURSIVE RStrip(_)
RStrip(field) ==
    IF field # <<>> /\ field[Len(field)] = " "
    THEN RStrip(SubSeq(field, 1, Len(field) - 1)) ELSE field

\* line.strip() on the fields of a line: tabs and spaces at both ends go, and with
\* them every field at either end that holds nothing else; <<>> is the empty line
RECURSIVE StripLineLeft(_)
StripLineLeft(fields) ==
    IF fields = <<>> THEN <<>>
    ELSE IF LStrip(Head(fields)) = <<>> THEN StripLineLeft(Tail(fields))
    ELSE <<LStrip(Head(fields))>> \o Tail(fields)

RECURSIVE StripLineRight(_)
StripLineRight(fields) ==
    IF fields = <<>> THEN <<>>
    ELSE IF RStrip(fields[Len(fields)]) = <<>>
         THEN StripLineRight(SubSeq(fields, 1, Len(fields) - 1))
    ELSE SubSeq(fields, 1, Len(fields) - 1) \o <<RStrip(fields[Len(fields)])>>

StripLine(fields) == StripLineRight(StripLineLeft(fields))

Digits == <<"0", "1", "2", "3", "4", "5", "6", "7", "8", "9">>

\* the value of a string of digits
RECURSIVE DigitsValue(_)
DigitsValue(field) ==
    IF field = <<>> THEN 0
    ELSE DigitsValue(SubSeq(field, 1, Len(field) - 1)) * 10
             + IndexOf(field[Len(field)], Digits)

\* int(text): [ok, value]; ok is FALSE where int raises ValueError
ParseInt(field) ==
    LET text == RStrip(LStrip(field))
        signed == text # <<>> /\ Head(text) \in {"+", "-"}
        digits == IF signed THEN Tail(text) ELSE text
    IN IF digits # <<>> /\ \A k \in 1..Len(digits) : InList(digits[k], Digits)
       THEN [ok |-> TRUE,
             value |-> IF signed /\ Head(text) = "-" THEN 0 - DigitsValue(digits)
                       ELSE DigitsValue(digits)]
       ELSE [ok |-> FALSE, value |-> 0]

\* one line of load_dictionary up to the registration: <<>> when the line is skipped,
\* otherwise << <<hanzi, pinyin with spaces, frequency>> >>
ParseLine(raw) ==
    LET parts == StripLine(raw)
    IN IF parts = <<>> \/ Head(Head(parts)) = "#" THEN <<>>
       ELSE IF Len(parts) >= 2
       THEN << <<parts[1], parts[2],
                 IF Len(parts) >= 3 /\ ParseInt(parts[3]).ok
                 THEN ParseInt(parts[3]).value ELSE DefaultFreq>> >>
       ELSE <<>>

\* the line ends with '...': content.split('...\n', 1) cuts the file behind it
EndsHeader(raw) ==
    /\ raw # <<>>
    /\ Len(raw[Len(raw)]) >= 3
    /\ SubSeq(raw[Len(raw)], Len(raw[Len(raw)]) - 2, Len(raw[Len(raw)])) = <<".", ".", ".">>

\* parts[1] of content.split('...\n', 1), as lines: what follows the first line that
\* ends the header
WordLines(lines) ==
    LET at == CHOOSE k \in 1..Len(lines) :
                  EndsHeader(lines[k]) /\ \A j \in 1..(k - 1) : ~EndsHeader(lines[j])
    IN SubSeq(lines, at + 1, Len(lines))

\* DictionaryManager.load_dictionary(dict_path) on the store st: a missing file
\* (FileNotFoundError) and an undecodable one (caught Exception) leave the store alone,
\* so does a file without the header end; otherwise every line is parsed and
\* registered in turn
LoadDictionaryFile(st, file) ==
    IF ~file.exists \/ ~file.readable THEN st
    ELSE IF ~\E k \in 1..Len(file.lines) : EndsHeader(file.lines[k]) THEN st
    ELSE LoadDictionary(st,
            Flatten([k \in 1..Len(WordLines(file.lines)) |->
                        ParseLine(WordLines(file.lines)[k])]))

\* DictionaryManager.load_dictionaries(dict_paths): the paths that exist, in order
RECURSIVE LoadDictionaryFiles(_, _)
LoadDictionaryFiles(st, files) ==
    IF files = <<>> THEN st
    ELSE CHOOSE r \in {LoadDictionaryFiles(next, Tail(files)) :
                           next \in {IF Head(files).exists
                                     THEN LoadDictionaryFile(st, Head(files))
                                     ELSE st}} : TRUE

\* the keys looked up while files are loaded
LoadedQueries == { <<"y", "i">>, <<"w", "u">>, <<>>, <<"5">> }

\* the store of the manager
Store == [wd |-> word_dict, wf |-> word_freq_dict]

\* DictionaryManager.__init__ before load_dictionaries: both maps empty
LoadInit ==
    /\ word_dict = EmptyStore.wd
    /\ word_freq_dict = EmptyStore.wf
    /\ pinyin_buffer = <<>>
    /\ candidates = <<>>
    /\ full_candidates = <<>>
    /\ current_page = 0
    /\ is_active = FALSE
    /\ ai_completions = <<>>
    /\ is_ai_mode = FALSE
    /\ last_input_text = <<>>
    /\ last_input_pinyin = <<>>
    /\ ai_selected_index = 0
    /\ ai_suggestions = <<>>
    /\ thread_pool = <<>>
    /\ tab_elapsed = tab_double_click_interval
    /\ ai_elapsed = ai_request_cooldown
    /\ emitted = <<>>
    /\ requested = <<>>

\* DictionaryManager.load_dictionary(dict_path)
ManagerLoadDictionary ==
    /\ \E file \in Files :
        /\ word_dict' = LoadDictionaryFile(Store, file).wd
        /\ word_freq_dict' = LoadDictionaryFile(Store, file).wf
    /\ UNCHANGED <<pinyin_buffer, candidates, full_candidates, session_vars>>

\* DictionaryManager.load_dictionaries(dict_paths)
ManagerLoadDictionaries ==
    /\ \E files \in FileLists :
        /\ word_dict' = LoadDictionaryFiles(Store, files).wd
        /\ word_freq_dict' = LoadDictionaryFiles(Store, files).wf
    /\ UNCHANGED <<pinyin_buffer, candidates, full_candidates, session_vars>>

\* DictionaryManager.lookup(pinyin_str) on the store loaded so far
ManagerLookupLoaded ==
    /\ \E s \in LoadedQueries :
        /\ pinyin_buffer' = s
        /\ full_candidates' = Lookup(word_dict, s)
    /\ UNCHANGED <<word_dict, word_freq_dict, candidates, session_vars>>

LoadNext == ManagerLoadDictionary \/ ManagerLoadDictionaries \/ ManagerLookupLoaded

SpecLoad == LoadInit /\ [][LoadNext]_vars

----------------------------------------------------------------------------
(* Properties of the session *)

\* the Idle state: nothing composed, nothing shown, no suggestion
IsIdle(s) ==
    /\ s.pinyin_buffer = <<>>
    /\ s.candidates = <<>>
    /\ s.full_candidates = <<>>
    /\ s.current_page = 0
    /\ ~s.is_active
    /\ ~s.is_ai_mode
    /\ s.ai_completions = <<>>

Idle == IsIdle(Self)

\* index is not a position of the list select_candidate reads
OutOfRange(index) ==
    IF is_ai_mode THEN index < 0 \/ index >= Len(ai_completions)
    ELSE index < 0 \/ index >= Len(candidates)

\* the number of pages n entries fill: the least k with k * page_size >= n
PageCount(n) == CHOOSE k \in 0..n : k * page_size >= n /\ (k = 0 \/ (k - 1) * page_size < n)

\* C1: after every step that committed a text (a successful select_candidate, from
\* composing or from suggestion mode), the session is Idle.
C1_CommitLeavesIdle == emitted # <<>> => Idle

\* C1, where the code departs: a suggestion was committed while a buffer was pending,
\* and the buffer and its candidates are still there.
C1_CommitKeepsBuffer ==
    emitted # <<>> /\ last_input_pinyin = <<>> /\ pinyin_buffer # <<>> /\ is_active

\* C2 as stated: ESC in any state that is not Idle leaves the session Idle and emits
\* nothing.
C2_EscLeavesIdle == [][(KeyEsc /\ ~Idle) => (Idle' /\ emitted' = <<>>)]_vars

\* C2 amended: ESC outside suggestion mode in an active session leaves the session Idle;
\* ESC in suggestion mode only turns suggestion mode off and drops the suggestions, the
\* buffer, the full list, the visible page and the page number staying; neither emits.
C2_EscByMode ==
    [][KeyEsc =>
        /\ emitted' = <<>>
        /\ (~is_ai_mode /\ is_active) => Idle'
        /\ is_ai_mode =>
            /\ ~is_ai_mode' /\ ai_completions' = <<>>
            /\ UNCHANGED <<pinyin_buffer, full_candidates, candidates, current_page, is_active>>]_vars

\* C2: ESC can be pressed in suggestion mode over a pending buffer, and while composing.
C2_EscWitness ==
    /\ is_ai_mode /\ pinyin_buffer # <<>> /\ candidates # <<>>
    /\ ENABLED (KeyEsc /\ ~is_ai_mode' /\ pinyin_buffer' # <<>>)

\* C3: a response to a request issued under another buffer than the present one is
\* discarded: it changes neither the suggestion mode nor the suggestion list.
C3_StaleResponseDiscarded ==
    [][(WorkerDone /\ \A w \in 1..Len(thread_pool) : thread_pool[w].buffer # pinyin_buffer)
        => UNCHANGED <<is_ai_mode, ai_completions>>]_vars

\* C4: select_candidate with an index outside the list it reads (the visible page, or
\* the suggestions in suggestion mode), negative ones included, changes nothing and
\* emits nothing.
C4_OutOfRangeSelectsNothing ==
    \A index \in ClickedIndexes : OutOfRange(index) => SelectCandidate(Self, index) = Self

\* C4: a last page of one candidate, a text remembered, and a click beside it.
C4_Witness ==
    /\ Len(candidates) = 1 /\ current_page = 2 /\ last_input_text # <<>>
    /\ OutOfRange(-1) /\ OutOfRange(1)
    /\ ENABLED (CandidateSelected /\ UNCHANGED <<pinyin_buffer, last_input_text>>)

\* C5: while composing, a select_candidate(index) inside the visible page emits the
\* entry of the full list at current_page * page_size + index and remembers it with
\* the buffer it was composed from.
C5_CommitsAbsoluteIndex ==
    [][\A index \in ClickedIndexes :
        (~is_ai_mode /\ ~OutOfRange(index) /\ Becomes(SelectCandidate(Self, index))) =>
            /\ emitted' = <<full_candidates[current_page * page_size + index + 1]>>
            /\ last_input_text' = full_candidates[current_page * page_size + index + 1]
            /\ last_input_pinyin' = pinyin_buffer]_vars

\* C5: a candidate of a later page has just been committed.
C5_Witness ==
    /\ emitted # <<>> /\ emitted[1] = last_input_text /\ last_input_pinyin # <<>>
    /\ ~InList(last_input_text,
               Take(GetCandidates(word_dict, word_freq_dict, last_input_pinyin), page_size))

\* C6: a letter key, in whatever state, turns suggestion mode off and drops the
\* suggestions, appends the lower-cased letter to the buffer, recomputes the full list
\* for the new buffer, returns to page 0 and makes the session active.
C6_LetterAppends ==
    Len(pinyin_buffer) < MaxBuf =>
        \A key \in LetterKeys :
            LET after == OnLetter(Self, key)
            IN /\ ~after.is_ai_mode /\ after.ai_completions = <<>>
               /\ after.pinyin_buffer = Append(pinyin_buffer, Lower(key))
               /\ after.full_candidates =
                      GetCandidates(word_dict, word_freq_dict, Append(pinyin_buffer, Lower(key)))
               /\ after.current_page = 0
               /\ after.is_active

\* C6: a letter is typed in suggestion mode on a later page, upper case, and the
\* longer buffer has candidates.
C6_Witness ==
    /\ is_ai_mode /\ ai_completions # <<>> /\ current_page > 0
    /\ Len(pinyin_buffer) < MaxBuf
    /\ OnLetter(Self, "Y").pinyin_buffer = Append(pinyin_buffer, "y")
    /\ OnLetter(Self, "i").full_candidates # <<>>

\* C7: backspace while composing (outside suggestion mode) removes the last letter of
\* the buffer; a buffer left empty leaves the session Idle, another has its full list
\* recomputed and shown from page 0.
C7_BackspaceRemoves ==
    (~is_ai_mode /\ is_active /\ pinyin_buffer # <<>>) =>
        LET after == OnBackspace(Self)
            shorter == SubSeq(pinyin_buffer, 1, Len(pinyin_buffer) - 1)
        IN /\ after.pinyin_buffer = shorter
           /\ Len(pinyin_buffer) = 1 => IsIdle(after)
           /\ Len(pinyin_buffer) > 1 =>
                /\ after.full_candidates = GetCandidates(word_dict, word_freq_dict, shorter)
                /\ after.current_page = 0
                /\ after.is_active

\* C7: backspace is pressed on a later page of a buffer of two letters, and leaves a
\* buffer that has candidates.
C7_Witness ==
    /\ ~is_ai_mode /\ is_active /\ Len(pinyin_buffer) = 2 /\ current_page > 0
    /\ OnBackspace(Self).full_candidates # <<>>
    /\ OnBackspace(Self).current_page = 0

\* C8: a page change forward adds one to the page exactly when the page is below
\* PageCount - 1, backward takes one off exactly when the page is above 0, and
\* otherwise the page stays; the buffer and the full list stay in both.
C8_PageMoves ==
    [][\A direction \in Directions : Becomes(HandlePageChange(Self, direction)) =>
        /\ direction > 0 =>
              current_page' = IF current_page < PageCount(Len(full_candidates)) - 1
                              THEN current_page + 1 ELSE current_page
        /\ direction <= 0 =>
              current_page' = IF current_page > 0 THEN current_page - 1 ELSE current_page
        /\ UNCHANGED <<pinyin_buffer, full_candidates>>]_vars

\* C8: the last of three pages is shown, from which a page change leads back.
C8_Witness ==
    /\ PageCount(Len(full_candidates)) = 3 /\ current_page = 2
    /\ ENABLED (PageChangeRequested /\ current_page' = 1)

\* C9: the visible candidates are the entries current_page * page_size + 1 .. + page_size
\* of the full list that exist, at most page_size of them; the page lies in
\* 0 .. PageCount - 1 of a non-empty full list, and is 0 for an empty one.
C9_VisibleIsPage ==
    LET n == Len(full_candidates)
        left == n - current_page * page_size
        shown == IF left < 0 THEN 0 ELSE IF left > page_size THEN page_size ELSE left
    IN /\ candidates = [k \in 1..shown |-> full_candidates[current_page * page_size + k]]
       /\ Len(candidates) <= page_size
       /\ n > 0 => (0 <= current_page /\ current_page <= PageCount(n) - 1)
       /\ n = 0 => (current_page = 0 /\ candidates = <<>>)

\* C9: a last page shorter than page_size is shown.
C9_Witness == current_page = 2 /\ Len(candidates) = 1 /\ Len(full_candidates) = 11

\* C10: a delivered list of completions (never empty) puts the session in suggestion
\* mode with exactly that list and the highlight on its first entry; the buffer, the
\* full list and the page stay.
C10_CompletionsEnter ==
    [][\A w \in 1..Len(thread_pool) : \A parsed \in ParsedLists \ {<<>>} :
        Becomes(WorkerRun(Self, w, FALSE, parsed)) =>
            /\ is_ai_mode'
            /\ ai_completions' = Take(parsed, MaxCompletions)
            /\ ai_suggestions' = Take(parsed, MaxCompletions)
            /\ ai_selected_index' = 0
            /\ UNCHANGED <<pinyin_buffer, full_candidates, current_page>>]_vars

\* C10: completions can arrive over a pending buffer on a later page, the highlight
\* of an earlier list having been moved.
C10_Witness ==
    /\ thread_pool # <<>> /\ ai_selected_index > 0 /\ current_page > 0
    /\ ENABLED (WorkerDone /\ is_ai_mode' /\ ai_selected_index' = 0)

\* C11: the remembered last text and last pinyin change only in a step that commits a
\* text (a successful select_candidate); every other step (ESC, backspace, paging, a
\* letter, entering or leaving suggestion mode, a selection out of range) keeps both.
C11_LastInputChangesOnCommit ==
    [][(last_input_text' # last_input_text \/ last_input_pinyin' # last_input_pinyin)
        => emitted' # <<>>]_vars

\* C11: with a text remembered, a buffer has been typed, paged and taken into
\* suggestion mode, and the remembered pair is still that of the commit.
C11_Witness ==
    /\ last_input_text # <<>> /\ last_input_pinyin # <<>>
    /\ pinyin_buffer # <<>> /\ pinyin_buffer # last_input_pinyin
    /\ current_page > 0 /\ is_ai_mode /\ emitted = <<>>

\* C12: a worker that ends in an error (the request failed, or no list came out of the
\* answer) changes nothing of the session: buffer, candidate lists, page, active flag,
\* suggestion mode and suggestions stay, and nothing is emitted.
C12_ErrorChangesNothing ==
    [][\A w \in 1..Len(thread_pool) :
        (\/ Becomes(WorkerRun(Self, w, TRUE, <<>>))
         \/ Becomes(WorkerRun(Self, w, FALSE, <<>>))) =>
            /\ UNCHANGED <<pinyin_buffer, candidates, full_candidates, current_page,
                           is_active, is_ai_mode, ai_completions,
                           last_input_text, last_input_pinyin>>
            /\ emitted' = <<>>]_vars

\* C12: a worker is pending over a composition on a later page, and its failure
\* leaves the composition as it is.
C12_Witness ==
    /\ thread_pool # <<>> /\ pinyin_buffer # <<>> /\ current_page > 0
    /\ WorkerRun(Self, 1, TRUE, <<>>).pinyin_buffer = pinyin_buffer
    /\ WorkerRun(Self, 1, FALSE, <<>>).current_page = current_page

----------------------------------------------------------------------------
(* Properties of the engine and the dictionary store *)

\* the set of the entries of a list
SetOf(list) == {list[k] : k \in 1..Len(list)}

\* no entry of the list occurs at two positions
NoDuplicates(list) == \A i, j \in 1..Len(list) : list[i] = list[j] => i = j

\* C13: whatever the state of the dictionary and whatever the string s, the list
\* PinyinEngine.get_candidates(s) returns holds no word twice.
C13_NoDuplicates ==
    \A s \in Queries : NoDuplicates(GetCandidates(word_dict, word_freq_dict, s))

\* C13 happens: get_candidates('yiwu') has returned its list, and the segmentation
\* and the dictionary matches it was put together from share words
C13_Witness ==
    /\ pinyin_buffer = <<"y", "i", "w", "u">>
    /\ full_candidates = GetCandidates(word_dict, word_freq_dict, pinyin_buffer)
    /\ \E w \in {full_candidates[k] : k \in 1..Len(full_candidates)} :
        /\ InList(w, Segment(word_dict, word_freq_dict, pinyin_buffer))
        /\ InList(w, DictGetCandidates(word_dict, word_freq_dict, pinyin_buffer, -1))
        /\ InList(w, CommonPhrases(pinyin_buffer))

\* C14: in every state of the store and for every string s, a second
\* get_candidates(s) right after a first one returns the same ordered list.
C14_SecondCallSame ==
    \A s \in Queries :
        GetCandidates(DictAfterEngineGetCandidates(word_dict, word_freq_dict, s),
                      word_freq_dict, s)
            = GetCandidates(word_dict, word_freq_dict, s)

\* C14 happens: get_candidates('yiyi') has returned its list; more candidates than
\* CellCap were offered to the last lattice cell, with equal scores among them, and a
\* further get_candidates('yi') would still reorder the store
C14_Witness ==
    /\ pinyin_buffer = <<"y", "i", "y", "i">>
    /\ full_candidates = GetCandidates(word_dict, word_freq_dict, pinyin_buffer)
    /\ word_dict = DictAfterEngineGetCandidates(word_dict, word_freq_dict, pinyin_buffer)
    /\ word_dict # DictAfterEngineGetCandidates(word_dict, word_freq_dict, <<"y", "i">>)
    /\ LET dp == Lattice(word_dict, word_freq_dict, <<"y", "i", "y">>, << <<<<<<>>, 0>>>> >>)
           offered == Offered(word_dict, word_freq_dict, pinyin_buffer, 4, dp)
       IN /\ Len(offered) > CellCap
          /\ \E a, b \in 1..Len(offered) : a # b /\ offered[a][2] = offered[b][2]

\* C15: for a fixed loaded dictionary and a fixed string s, get_candidates(s) returns
\* the same ordered list whether or not a get_candidates call for another string t
\* was made before it on the same engine.
C15_EarlierCallsDoNotMatter ==
    \A s \in Queries : \A t \in Queries :
        GetCandidates(DictAfterEngineGetCandidates(word_dict, word_freq_dict, t),
                      word_freq_dict, s)
            = GetCandidates(word_dict, word_freq_dict, s)

\* C15, where the code departs: on the freshly loaded store, get_candidates('yiyi')
\* after get_candidates('yi') returns another list than get_candidates('yiyi') alone
C15_EarlierCallMatters ==
    /\ \E sources \in SourceSets : word_dict = LoadDictionaries(EmptyStore, sources).wd
    /\ GetCandidates(DictAfterEngineGetCandidates(word_dict, word_freq_dict, <<"y", "i">>),
                     word_freq_dict, <<"y", "i", "y", "i">>)
           # GetCandidates(word_dict, word_freq_dict, <<"y", "i", "y", "i">>)

\* C16: once loading has finished, no call of the engine or of the dictionary manager
\* (lookup, segment, get_candidates) changes the store: the keys, the words under each
\* key, their order and every frequency are after the call what they were before it.
C16_StoreIsReadOnly == [][word_dict' = word_dict /\ word_freq_dict' = word_freq_dict]_vars

\* C16, where the code departs: after get_candidates('yi') the words stored under 'yi'
\* are in an order no loading produced
C16_StoreReordered ==
    /\ pinyin_buffer = <<"y", "i">>
    /\ \E sources \in SourceSets :
        SetOf(Lookup(word_dict, pinyin_buffer))
            = SetOf(Lookup(LoadDictionaries(EmptyStore, sources).wd, pinyin_buffer))
    /\ \A sources \in SourceSets :
        SetOf(Lookup(word_dict, pinyin_buffer))
                = SetOf(Lookup(LoadDictionaries(EmptyStore, sources).wd, pinyin_buffer))
            => Lookup(word_dict, pinyin_buffer)
                   # Lookup(LoadDictionaries(EmptyStore, sources).wd, pinyin_buffer)

\* C17: when s is a key of the curated phrase table, get_candidates(s) starts with the
\* curated phrases of s in table order; every other candidate comes after them,
\* whatever its frequency in the dictionary.
C17_CuratedFirst ==
    \A s \in Queries :
        s \in CommonPhraseKeys =>
            LET result == GetCandidates(word_dict, word_freq_dict, s)
                curated == CommonPhrases(s)
            IN /\ Len(result) >= Len(curated)
               /\ SubSeq(result, 1, Len(curated)) = curated
               /\ \A k \in (Len(curated) + 1)..Len(result) : ~InList(result[k], curated)

\* C17 happens: get_candidates('yiwu') has returned its list, and a word that is not
\* curated has a higher frequency under 'yiwu' than the score of any curated phrase
C17_Witness ==
    /\ pinyin_buffer = <<"y", "i", "w", "u">>
    /\ pinyin_buffer \in CommonPhraseKeys
    /\ full_candidates = GetCandidates(word_dict, word_freq_dict, pinyin_buffer)
    /\ Len(full_candidates) > Len(CommonPhrases(pinyin_buffer))
    /\ \E k \in 1..Len(full_candidates) :
        /\ ~InList(full_candidates[k], CommonPhrases(pinyin_buffer))
        /\ InList(full_candidates[k], Lookup(word_dict, pinyin_buffer))
        /\ \A c \in 1..Len(CommonPhrases(pinyin_buffer)) :
            GetWordFrequency(word_freq_dict, full_candidates[k], pinyin_buffer)
                > GetWordScore(word_freq_dict, CommonPhrases(pinyin_buffer)[c], pinyin_buffer)

\* the pairs are in descending order of their second component
Descending(pairs) == \A a, b \in 1..Len(pairs) : a < b => pairs[a][2] >= pairs[b][2]

\* the words of key, each with its frequency under key, most frequent first
ExactTier(wd, wf, key) ==
    SortByScoreDesc([k \in 1..Len(Lookup(wd, key)) |->
        <<Lookup(wd, key)[k], GetWordFrequency(wf, Lookup(wd, key)[k], key)>>])

\* the words of every longer key that starts with key, each with its frequency under
\* its own key, most frequent first
PrefixTier(wd, wf, key) ==
    SortByScoreDesc(Flatten([i \in 1..Len(wd) |->
        IF StartsWith(wd[i][1], key) /\ wd[i][1] # key
        THEN [k \in 1..Len(wd[i][2]) |->
                 <<wd[i][2][k], GetWordFrequency(wf, wd[i][2][k], wd[i][1])>>]
        ELSE <<>>]))

\* the fallback entries: the words of each reading pypinyin gives, then the hard-coded
\* mappings
FallbackTier(wd, key) ==
    Flatten([r \in 1..Len(Flatten(PypinyinReadings(key))) |->
                Lookup(wd, Flatten(PypinyinReadings(key))[r])])
        \o CommonMappings(key)

\* C18: get_candidates(s) is the order-preserving de-duplication (first occurrence
\* wins) of: the curated phrases of s, segment(s), the exact matches of s by frequency
\* descending, the prefix matches of s by frequency descending, the fallback entries.
C18_MergeOfTiers ==
    \A s \in Queries :
        /\ Descending(ExactTier(word_dict, word_freq_dict, s))
        /\ Descending(PrefixTier(word_dict, word_freq_dict, s))
        /\ s # <<>> =>
            GetCandidates(word_dict, word_freq_dict, s)
                = Unique((IF s \in CommonPhraseKeys THEN CommonPhrases(s) ELSE <<>>)
                         \o Segment(word_dict, word_freq_dict, s)
                         \o Items(ExactTier(word_dict, word_freq_dict, s))
                         \o Items(PrefixTier(word_dict, word_freq_dict, s))
                         \o FallbackTier(word_dict, s))

\* C18 happens: get_candidates('yi') has returned its list; the exact matches are all
\* among the segmentation results, and there are prefix matches and fallback entries
C18_Witness ==
    /\ pinyin_buffer = <<"y", "i">>
    /\ full_candidates = GetCandidates(word_dict, word_freq_dict, pinyin_buffer)
    /\ Items(ExactTier(word_dict, word_freq_dict, pinyin_buffer)) # <<>>
    /\ Items(PrefixTier(word_dict, word_freq_dict, pinyin_buffer)) # <<>>
    /\ FallbackTier(word_dict, pinyin_buffer) # <<>>
    /\ \A k \in 1..Len(Lookup(word_dict, pinyin_buffer)) :
        InList(Lookup(word_dict, pinyin_buffer)[k],
               Segment(word_dict, word_freq_dict, pinyin_buffer))
    /\ \E k \in 1..Len(full_candidates) :
        InList(full_candidates[k], Items(PrefixTier(word_dict, word_freq_dict, pinyin_buffer)))

\* the first n entries of the list, all of it when it has fewer
FirstEntries(list, n) == [k \in 1..(IF Len(list) < n THEN Len(list) ELSE n) |-> list[k]]

\* C19, as stated: with a positive limit n the query returns the first n entries of
\* the full list, and with the limit absent or non-positive it returns the full list.
C19_AbsentLimitGivesAll ==
    \A s \in Queries :
        LET full == DictGetCandidates(word_dict, word_freq_dict, s, -1)
        IN /\ \A n \in MaxCounts :
                DictGetCandidates(word_dict, word_freq_dict, s, n)
                    = IF n > 0 THEN FirstEntries(full, n) ELSE full
           /\ DictGetCandidatesDefault(word_dict, word_freq_dict, s) = full

\* C19, amended: DictionaryManager.get_candidates returns the first n entries of its
\* full list for a positive max_count n, the full list for a non-positive max_count,
\* and the first DefaultMaxCount entries when max_count is absent;
\* PinyinEngine.get_candidates takes no limit and leaves out none of these matches.
C19_LimitWithDefault ==
    \A s \in Queries :
        LET full == DictGetCandidates(word_dict, word_freq_dict, s, -1)
        IN /\ \A n \in MaxCounts :
                DictGetCandidates(word_dict, word_freq_dict, s, n)
                    = IF n > 0 THEN FirstEntries(full, n) ELSE full
           /\ DictGetCandidatesDefault(word_dict, word_freq_dict, s)
                  = FirstEntries(full, DefaultMaxCount)
           /\ s # <<>> =>
                \A k \in 1..Len(full) :
                    InList(full[k], GetCandidates(word_dict, word_freq_dict, s))

\* C19 happens: DictionaryManager.get_candidates('y') without max_count has returned
\* DefaultMaxCount entries of a longer list
C19_Witness ==
    /\ pinyin_buffer = <<"y">>
    /\ full_candidates = DictGetCandidatesDefault(word_dict, word_freq_dict, pinyin_buffer)
    /\ Len(full_candidates) = DefaultMaxCount
    /\ Len(DictGetCandidates(word_dict, word_freq_dict, pinyin_buffer, -1)) > DefaultMaxCount
    /\ Len(DictGetCandidates(word_dict, word_freq_dict, pinyin_buffer, 2)) = 2
    /\ Len(GetCandidates(word_dict, word_freq_dict, pinyin_buffer)) > DefaultMaxCount

\* C20: the score of a word under a key is its frequency plus, only when the word is at
\* position index of the curated phrases of the key, 10000 - index * 1000; and every
\* curated word of a key scores strictly higher than every word of the same key that
\* is not curated, whatever the frequencies in the dictionary.
C20_CuratedOutscores ==
    \A key \in Queries :
        LET words == Lookup(word_dict, key)
            curated == CommonPhrases(key)
            bonus(w) == IF key \in CommonPhraseKeys /\ InList(w, curated)
                        THEN 10000 - IndexOf(w, curated) * 1000
                        ELSE 0
        IN /\ \A k \in 1..Len(words) :
                GetWordScore(word_freq_dict, words[k], key)
                    = GetWordFrequency(word_freq_dict, words[k], key) + bonus(words[k])
           /\ key \in CommonPhraseKeys =>
                \A c \in 1..Len(curated) : \A k \in 1..Len(words) :
                    ~InList(words[k], curated) =>
                        GetWordScore(word_freq_dict, curated[c], key)
                            > GetWordScore(word_freq_dict, words[k], key)

\* C20, where the code departs: segment('yiwu') has returned its list, and a word that
\* is not curated stands ahead of the first curated phrase of 'yiwu' because its
\* frequency is higher than the curated score
C20_CuratedOutscored ==
    /\ pinyin_buffer = <<"y", "i", "w", "u">>
    /\ full_candidates = Segment(word_dict, word_freq_dict, pinyin_buffer)
    /\ full_candidates # <<>>
    /\ ~InList(full_candidates[1], CommonPhrases(pinyin_buffer))
    /\ InList(CommonPhrases(pinyin_buffer)[1], full_candidates)
    /\ GetWordScore(word_freq_dict, full_candidates[1], pinyin_buffer)
           > GetWordScore(word_freq_dict, CommonPhrases(pinyin_buffer)[1], pinyin_buffer)

----------------------------------------------------------------------------
(* Properties of the segmentation lattice *)

\* the lattice before its first step: cell 0 holds the empty phrase at score 0
EmptyLattice == << <<<<<<>>, 0>>>> >>

\* every <<phrase, score>> that cutting s into registered keys and choosing one word
\* per key gives: the phrase is the words joined, the score the sum of their scores
RECURSIVE Decompositions(_, _, _)
Decompositions(wd, wf, s) ==
    IF s = <<>> THEN {<<<<>>, 0>>}
    ELSE UNION {
        {<<d[1] \o word, d[2] + GetWordScore(wf, word, SubSeq(s, j + 1, Len(s)))>> :
            d \in Decompositions(wd, wf, SubSeq(s, 1, j)),
            word \in SetOf(Lookup(wd, SubSeq(s, j + 1, Len(s))))} :
        j \in 0..(Len(s) - 1)}

\* C21: every phrase segment(s) returns is a concatenation of dictionary words whose
\* keys concatenate to s, scored by the sum of the word scores; cell 0 of the lattice
\* is the empty phrase at score 0 alone, and every entry of a cell i is an entry of a
\* cell j < i extended by a word registered under the key s[j:i].
C21_SegmentSound ==
    \A s \in SegmentQueries :
        LET dp == Lattice(word_dict, word_freq_dict, s, EmptyLattice)
        IN /\ dp[1] = << <<<<>>, 0>> >>
           /\ \A i \in 1..Len(s) :
                /\ SetOf(dp[i + 1])
                       \subseteq Decompositions(word_dict, word_freq_dict, SubSeq(s, 1, i))
                /\ SetOf(dp[i + 1]) \subseteq UNION {
                       {<<p[1] \o word,
                          p[2] + GetWordScore(word_freq_dict, word, SubSeq(s, j + 1, i))>> :
                           p \in SetOf(dp[j + 1]),
                           word \in SetOf(Lookup(word_dict, SubSeq(s, j + 1, i)))} :
                       j \in 0..(i - 1)}
           /\ SetOf(Segment(word_dict, word_freq_dict, s))
                  \subseteq {d[1] : d \in Decompositions(word_dict, word_freq_dict, s)}

\* C21 happens: segment('yiwu') has returned phrases, one a single word of the key
\* 'yiwu' and one made of a word of 'yi' and a word of 'wu'
C21_Witness ==
    /\ pinyin_buffer = <<"y", "i", "w", "u">>
    /\ full_candidates = Segment(word_dict, word_freq_dict, pinyin_buffer)
    /\ \E phrase \in SetOf(full_candidates) : InList(phrase, Lookup(word_dict, pinyin_buffer))
    /\ \E a \in SetOf(Lookup(word_dict, <<"y", "i">>)) :
        \E b \in SetOf(Lookup(word_dict, <<"w", "u">>)) : InList(a \o b, full_candidates)

\* no cell of the lattice of s had more than CellCap candidates offered to it
NoCellOverflows(wd, wf, s) ==
    \A dp \in {Lattice(wd, wf, s, EmptyLattice)} :
        \A i \in 1..Len(s) : Len(Offered(wd, wf, s, i, dp)) <= CellCap

\* C22: segment(s) is non-empty exactly when s can be cut into registered keys, and
\* when no cell exceeds the cap it returns the phrase of every cut of s into
\* registered keys with every choice of one word per key.
C22_SegmentComplete ==
    \A s \in SegmentQueries :
        s # <<>> =>
            \A phrases \in {SetOf(Segment(word_dict, word_freq_dict, s))} :
            \A cuts \in {Decompositions(word_dict, word_freq_dict, s)} :
                /\ phrases # {} <=> cuts # {}
                /\ NoCellOverflows(word_dict, word_freq_dict, s) =>
                       phrases = {d[1] : d \in cuts}

\* C22 happens: segment('yiwu') has returned its list with no cell over the cap; both
\* the cut yiwu and the cut yi+wu are in it, and 'yiw', which no cut covers, gives
\* nothing
C22_Witness ==
    /\ pinyin_buffer = <<"y", "i", "w", "u">>
    /\ full_candidates = Segment(word_dict, word_freq_dict, pinyin_buffer)
    /\ NoCellOverflows(word_dict, word_freq_dict, pinyin_buffer)
    /\ SetOf(Lookup(word_dict, pinyin_buffer)) \subseteq SetOf(full_candidates)
    /\ \A a \in SetOf(Lookup(word_dict, <<"y", "i">>)) :
        \A b \in SetOf(Lookup(word_dict, <<"w", "u">>)) : InList(a \o b, full_candidates)
    /\ Len(full_candidates) > Len(Lookup(word_dict, pinyin_buffer))
    /\ Segment(word_dict, word_freq_dict, <<"y", "i", "w">>) = <<>>

\* how many times e occurs in the list
Occurrences(e, list) == Cardinality({k \in 1..Len(list) : list[k] = e})

\* the entries of pairs that score v, in list order
Scoring(pairs, v) == SelectSeq(pairs, LAMBDA e : e[2] = v)

\* C23: segment(s) returns the entries of the last lattice cell ordered by score,
\* highest first, and entries of equal score keep the order in which they were found;
\* segment of the empty string returns the empty list.
C23_SegmentOrder ==
    \A s \in SegmentQueries :
        IF s = <<>> THEN Segment(word_dict, word_freq_dict, s) = <<>>
        ELSE \A dp \in {Lattice(word_dict, word_freq_dict, s, EmptyLattice)} :
             \A ranked \in {SortByScoreDesc(dp[Len(s) + 1])} :
             \A offered \in {Offered(word_dict, word_freq_dict, s, Len(s), dp)} :
                /\ Segment(word_dict, word_freq_dict, s) = Items(ranked)
                /\ Descending(ranked)
                /\ Len(ranked) = Len(dp[Len(s) + 1])
                /\ \A e \in SetOf(ranked) :
                     Occurrences(e, ranked) = Occurrences(e, dp[Len(s) + 1])
                /\ \A v \in {e[2] : e \in SetOf(ranked)} :
                     /\ Len(Scoring(ranked, v)) <= Len(Scoring(offered, v))
                     /\ Scoring(ranked, v)
                            = SubSeq(Scoring(offered, v), 1, Len(Scoring(ranked, v)))

\* C23 happens: segment('yiyi') has returned its list, and two different phrases of
\* equal score stand in it in the order in which they were found
C23_Witness ==
    /\ pinyin_buffer = <<"y", "i", "y", "i">>
    /\ full_candidates = Segment(word_dict, word_freq_dict, pinyin_buffer)
    /\ \A dp \in {Lattice(word_dict, word_freq_dict, pinyin_buffer, EmptyLattice)} :
       \A ranked \in {SortByScoreDesc(dp[Len(pinyin_buffer) + 1])} :
       \A offered \in {Offered(word_dict, word_freq_dict, pinyin_buffer, Len(pinyin_buffer), dp)} :
            \E a, b \in 1..Len(ranked) : \E x, y \in 1..Len(offered) :
                /\ a < b /\ x < y
                /\ ranked[a][2] = ranked[b][2] /\ ranked[a][1] # ranked[b][1]
                /\ offered[x] = ranked[a] /\ offered[y] = ranked[b]
                /\ full_candidates[a] = ranked[a][1] /\ full_candidates[b] = ranked[b][1]

\* the scores of the pairs, highest first
ScoresDesc(pairs) == [k \in 1..Len(pairs) |-> SortByScoreDesc(pairs)[k][2]]

\* the cell after each candidate offered to it: steps[m + 1] is the cell after the
\* first m candidates
RECURSIVE CellSteps(_, _)
CellSteps(steps, offered) ==
    IF offered = <<>> THEN steps
    ELSE CHOOSE r \in {CellSteps(next, Tail(offered)) :
                           next \in {Append(steps, AddCandidate(steps[Len(steps)],
                                                               Head(offered)))}} : TRUE

\* after is before with the candidate added and, when before was full, with one entry
\* of the lowest score among them taken out
EvictsOnlyLowest(before, candidate, after) ==
    \A all \in {Append(before, candidate)} :
        IF Len(before) < CellCap
        THEN after = all
        ELSE \E e \in SetOf(all) :
                /\ \A x \in SetOf(all) : e[2] <= x[2]
                /\ \A x \in SetOf(all) :
                     Occurrences(x, after) = Occurrences(x, all) - (IF x = e THEN 1 ELSE 0)
                /\ Len(after) = CellCap

\* C24: at every step of segment(s) every lattice cell holds at most CellCap entries;
\* a step evicts nothing from a cell that is not full and only an entry of the lowest
\* score from a full one, so that a cell that was offered more than CellCap candidates
\* holds the CellCap highest-scoring of them.
C24_CellKeepsBest ==
    \A dp \in {Lattice(word_dict, word_freq_dict, pinyin_buffer, EmptyLattice)} :
    \A i \in 1..Len(pinyin_buffer) :
    \A offered \in {Offered(word_dict, word_freq_dict, pinyin_buffer, i, dp)} :
    \A steps \in {CellSteps(<< <<>> >>, offered)} :
        /\ \A m \in 1..Len(offered) :
             /\ Len(steps[m + 1]) <= CellCap
             /\ EvictsOnlyLowest(steps[m], offered[m], steps[m + 1])
        /\ steps[Len(offered) + 1] = dp[i + 1]
        /\ ScoresDesc(dp[i + 1]) = FirstEntries(ScoresDesc(offered), CellCap)

\* C24 happens: segment('yiyiwu') was called; its cell 4 was offered more than CellCap
\* candidates, was cut to CellCap entries and dropped a candidate, and its last cell,
\* built on cell 4, was offered more than CellCap candidates too
C24_Witness ==
    /\ pinyin_buffer = <<"y", "i", "y", "i", "w", "u">>
    /\ full_candidates = Segment(word_dict, word_freq_dict, pinyin_buffer)
    /\ \A dp \in {Lattice(word_dict, word_freq_dict, pinyin_buffer, EmptyLattice)} :
        /\ Len(Offered(word_dict, word_freq_dict, pinyin_buffer, 4, dp)) > CellCap
        /\ Len(dp[5]) = CellCap
        /\ \E e \in SetOf(Offered(word_dict, word_freq_dict, pinyin_buffer, 4, dp)) :
            ~InList(e, dp[5])
        /\ Len(Offered(word_dict, word_freq_dict, pinyin_buffer, 6, dp)) > CellCap
        /\ Len(dp[7]) = CellCap
        /\ Len(full_candidates) = CellCap

\* the lattice of segment built without the cap: every cell keeps every candidate
\* offered to it
RECURSIVE UnprunedLattice(_, _, _, _)
UnprunedLattice(wd, wf, s, dp) ==
    IF Len(dp) = Len(s) + 1 THEN dp
    ELSE CHOOSE r \in {UnprunedLattice(wd, wf, s, next) :
                           next \in {Append(dp, Offered(wd, wf, s, Len(dp), dp))}} : TRUE

\* C30: cutting every cell to CellCap entries loses no best result: the scores of the
\* entries segment(s) returns are the CellCap highest scores, with multiplicity, of
\* all the decompositions of s the lattice without the cap holds.
C30_PruningKeepsBest ==
    pinyin_buffer # <<>> =>
        \A dp \in {Lattice(word_dict, word_freq_dict, pinyin_buffer, EmptyLattice)} :
        \A all \in {UnprunedLattice(word_dict, word_freq_dict, pinyin_buffer, EmptyLattice)} :
            /\ ScoresDesc(dp[Len(pinyin_buffer) + 1])
                   = FirstEntries(ScoresDesc(all[Len(pinyin_buffer) + 1]), CellCap)
            /\ Len(Segment(word_dict, word_freq_dict, pinyin_buffer))
                   = Len(FirstEntries(all[Len(pinyin_buffer) + 1], CellCap))

\* C30 happens: segment('yiyiwu') has returned CellCap phrases; the lattice without the
\* cap holds more than CellCap entries in cell 4 and in the last cell, and a returned
\* phrase extends an entry of the capped cell 4
C30_Witness ==
    /\ pinyin_buffer = <<"y", "i", "y", "i", "w", "u">>
    /\ full_candidates = Segment(word_dict, word_freq_dict, pinyin_buffer)
    /\ Len(full_candidates) = CellCap
    /\ \A dp \in {Lattice(word_dict, word_freq_dict, pinyin_buffer, EmptyLattice)} :
       \A all \in {UnprunedLattice(word_dict, word_freq_dict, pinyin_buffer, EmptyLattice)} :
            /\ Len(all[5]) > CellCap
            /\ Len(all[7]) > Len(Offered(word_dict, word_freq_dict, pinyin_buffer, 6, dp))
            /\ \E p \in SetOf(dp[5]) : \E word \in SetOf(Lookup(word_dict, <<"w", "u">>)) :
                InList(p[1] \o word, full_candidates)

----------------------------------------------------------------------------
(* Properties of loading *)

\* the entries load_dictionary registers from a file, in line order; none when the
\* file cannot be loaded
FileEntries(file) ==
    IF file.exists /\ file.readable /\ \E k \in 1..Len(file.lines) : EndsHeader(file.lines[k])
    THEN Flatten([k \in 1..Len(WordLines(file.lines)) |-> ParseLine(WordLines(file.lines)[k])])
    ELSE <<>>

\* the frequency of the first entry of the file for the word under the key
FirstFrequency(file, hanzi, key) ==
    LET entries == FileEntries(file)
        first == CHOOSE k \in 1..Len(entries) :
                    /\ entries[k][1] = hanzi /\ RemoveSpaces(entries[k][2]) = key
                    /\ \A j \in 1..(k - 1) :
                        ~(entries[j][1] = hanzi /\ RemoveSpaces(entries[j][2]) = key)
    IN entries[first][3]

\* the <<word, key>> pairs the file has entries for
FilePairs(file) ==
    {<<FileEntries(file)[k][1], RemoveSpaces(FileEntries(file)[k][2])>> :
        k \in 1..Len(FileEntries(file))}

\* C25: whatever is loaded already, when file a is loaded and then file b, every
\* frequency recorded after a is still recorded after b, and a pair that a registered
\* has the frequency a gives it, also when b has an entry for the pair.
C25_FirstLoadedWins ==
    \A a \in Files :
        \A st1 \in {LoadDictionaryFile(Store, a)} :
        \A registered \in {FilePairs(a) \ DOMAIN Store.wf} :
        \A b \in Files :
        \A st2 \in {LoadDictionaryFile(st1, b)} :
            /\ \A p \in DOMAIN st1.wf : p \in DOMAIN st2.wf /\ st2.wf[p] = st1.wf[p]
            /\ \A p \in registered : st2.wf[p] = FirstFrequency(a, p[1], p[2])

\* C25 happens: two files were loaded that both have the word 'one' under 'yi', with
\* the frequencies 100 and 7, and the store records the one of the file loaded first
C25_Witness ==
    /\ <<<<"one">>, <<"y", "i">>>> \in FilePairs(CuratedFile) \cap FilePairs(BulkFile)
    /\ FirstFrequency(CuratedFile, <<"one">>, <<"y", "i">>)
           # FirstFrequency(BulkFile, <<"one">>, <<"y", "i">>)
    /\ Store = LoadDictionaryFiles(EmptyStore, <<BulkFile, CuratedFile>>)
    /\ word_freq_dict[<<<<"one">>, <<"y", "i">>>>]
           = FirstFrequency(BulkFile, <<"one">>, <<"y", "i">>)

\* C26, as stated: a file loaded later only adds keys that are not registered yet:
\* under every key registered before the load, the list of words is after the load
\* what it was before.
C26_LaterFileAddsOnlyKeys ==
    \A b \in Files :
        \A after \in {LoadDictionaryFile(Store, b)} :
            \A i \in 1..Len(word_dict) : after.wd[i] = word_dict[i]

\* C26, amended: a file loaded later leaves every registered key at its place and the
\* words under it at theirs; it may append to a registered key words the key did not
\* have, taken from its own entries for that key, and add new keys behind the old.
C26_LaterFileOnlyAppends ==
    \A b \in Files :
        \A after \in {LoadDictionaryFile(Store, b)} :
            /\ Len(after.wd) >= Len(word_dict)
            /\ \A i \in 1..Len(word_dict) :
                /\ after.wd[i][1] = word_dict[i][1]
                /\ Len(after.wd[i][2]) >= Len(word_dict[i][2])
                /\ SubSeq(after.wd[i][2], 1, Len(word_dict[i][2])) = word_dict[i][2]
                /\ \A k \in (Len(word_dict[i][2]) + 1)..Len(after.wd[i][2]) :
                    /\ ~InList(after.wd[i][2][k], word_dict[i][2])
                    /\ <<after.wd[i][2][k], word_dict[i][1]>> \in FilePairs(b)
            /\ \A i \in (Len(word_dict) + 1)..Len(after.wd) : ~HasKey(word_dict, after.wd[i][1])

\* C26 happens: the curated file registered 'wu' with one word, the bulk file loaded
\* after it has another word for 'wu', and the store lists it behind the first
C26_Witness ==
    /\ Store = LoadDictionaryFiles(EmptyStore, <<CuratedFile, BulkFile>>)
    /\ Lookup(LoadDictionaryFile(EmptyStore, CuratedFile).wd, <<"w", "u">>) = << <<"none">> >>
    /\ <<<<"duty">>, <<"w", "u">>>> \in FilePairs(BulkFile)
    /\ Lookup(word_dict, <<"w", "u">>) = << <<"none">>, <<"duty">> >>

\* the words the entries have for the key, in entry order
WordsFor(entries, key) ==
    Items(SelectSeq(entries, LAMBDA e : RemoveSpaces(e[2]) = key))

\* the line of the file behind its header gives no frequency the loader can read: it
\* has no third field, or one that is not an integer
GivesNoFrequency(raw) ==
    Len(StripLine(raw)) < 3 \/ ~ParseInt(StripLine(raw)[3]).ok

\* C27: after any sequence of loads no key is registered twice and no word twice
\* under a key, every pair in the store has one recorded frequency and no other pair
\* has one; a further load keeps the words of a key in the order of their first
\* registration, and a pair first registered by a line without a readable frequency
\* has the baseline DefaultFreq.
C27_StoreWellFormed ==
    /\ \A i, j \in 1..Len(word_dict) : word_dict[i][1] = word_dict[j][1] => i = j
    /\ \A i \in 1..Len(word_dict) : NoDuplicates(word_dict[i][2])
    /\ DOMAIN word_freq_dict
           = UNION {{<<word_dict[i][2][k], word_dict[i][1]>> : k \in 1..Len(word_dict[i][2])} :
                        i \in 1..Len(word_dict)}
    /\ \A b \in Files :
        \A after \in {LoadDictionaryFile(Store, b)} :
        \A entries \in {FileEntries(b)} :
            /\ \A i \in 1..Len(after.wd) :
                after.wd[i][2]
                    = Unique(Lookup(word_dict, after.wd[i][1]) \o WordsFor(entries, after.wd[i][1]))
            /\ b.exists /\ b.readable /\ (\E k \in 1..Len(b.lines) : EndsHeader(b.lines[k])) =>
                \A k \in 1..Len(WordLines(b.lines)) :
                    \A e \in SetOf(ParseLine(WordLines(b.lines)[k])) :
                        /\ GivesNoFrequency(WordLines(b.lines)[k])
                        /\ <<e[1], RemoveSpaces(e[2])>> \notin DOMAIN word_freq_dict
                        /\ \A j \in 1..(k - 1) :
                            \A d \in SetOf(ParseLine(WordLines(b.lines)[j])) :
                                <<d[1], RemoveSpaces(d[2])>> # <<e[1], RemoveSpaces(e[2])>>
                        => after.wf[<<e[1], RemoveSpaces(e[2])>>] = DefaultFreq

\* C27 happens: three files were loaded; 'wu' lists its words in the order in which
\* they were first registered, the lines of the rough file that repeat 'five' and
\* 'duty' added nothing, and 'already' under 'yi', first registered by a line with the
\* frequency '9.5', has the baseline
C27_Witness ==
    /\ Store = LoadDictionaryFiles(EmptyStore, <<OtherFile, RoughFile, LateFile>>)
    /\ Lookup(word_dict, <<"w", "u">>) = << <<"five">>, <<"duty">>, <<"none">> >>
    /\ word_freq_dict[<<<<"five">>, <<"w", "u">>>>] = 90
    /\ word_freq_dict[<<<<"duty">>, <<"w", "u">>>>] = 3
    /\ word_freq_dict[<<<<"already">>, <<"y", "i">>>>] = DefaultFreq
    /\ \E k \in 1..Len(LateFile.lines) :
        /\ GivesNoFrequency(LateFile.lines[k])
        /\ ParseLine(LateFile.lines[k]) = << <<<<"already">>, <<"y", "i">>, DefaultFreq>> >>

\* the line has a word field and a key field: it is not blank, not a comment, and
\* neither of its first two fields is missing or empty
WellFormedLine(raw) ==
    /\ Len(raw) >= 2
    /\ RStrip(LStrip(raw[1])) # <<>>
    /\ Head(LStrip(raw[1])) # "#"
    /\ RemoveSpaces(raw[2]) # <<>>

\* the entry of a well-formed line: word, key, and the frequency or the baseline
EntryOf(raw) ==
    <<RStrip(LStrip(raw[1])), RStrip(LStrip(raw[2])),
      IF Len(raw) >= 3 /\ ParseInt(raw[3]).ok THEN ParseInt(raw[3]).value ELSE DefaultFreq>>

\* the entries of the well-formed lines of a file that exists, can be read and has
\* the header end, in line order
WellFormedEntries(file) ==
    IF file.exists /\ file.readable /\ \E k \in 1..Len(file.lines) : EndsHeader(file.lines[k])
    THEN Flatten([k \in 1..Len(WordLines(file.lines)) |->
                     IF WellFormedLine(WordLines(file.lines)[k])
                     THEN <<EntryOf(WordLines(file.lines)[k])>> ELSE <<>>])
    ELSE <<>>

\* C28: loading never fails, and what a file adds to the store is what its well-formed
\* lines add: a missing file, an unreadable file, a file without the header end, and
\* blank, comment or field-deficient lines contribute nothing; an empty store answers
\* every lookup with no words.
C28_OnlyWellFormedLinesCount ==
    /\ \A file \in Files :
        LoadDictionaryFile(Store, file) = LoadDictionary(Store, WellFormedEntries(file))
    /\ \A files \in FileLists :
        LoadDictionaryFiles(Store, files)
            = LoadDictionary(Store, Flatten([k \in 1..Len(files) |-> WellFormedEntries(files[k])]))
    /\ Store = EmptyStore => \A s \in Queries : Lookup(word_dict, s) = <<>>

\* C28, where the code departs: the rough file was loaded, and its line without a word
\* field, <TAB>yi<TAB>5, left the word 'yi' under the key '5', its line without a key
\* field, easy<TAB><TAB>5, the word 'easy' under the empty key
C28_DeficientLinesCounted ==
    /\ \E k \in 1..Len(RoughFile.lines) :
        /\ RoughFile.lines[k] = << <<>>, <<"y", "i">>, <<"5">> >>
        /\ ~WellFormedLine(RoughFile.lines[k])
    /\ \E k \in 1..Len(RoughFile.lines) :
        /\ RoughFile.lines[k] = << <<"easy">>, <<>>, <<"5">> >>
        /\ ~WellFormedLine(RoughFile.lines[k])
    /\ Lookup(word_dict, <<"5">>) = << <<"y", "i">> >>
    /\ Lookup(word_dict, <<>>) = << <<"easy">> >>
    /\ pinyin_buffer = <<"5">>
    /\ full_candidates = << <<"y", "i">> >>

----------------------------------------------------------------------------
(* Properties of the completion worker *)

\* C29: every suggestion request produces exactly one outcome delivered to the
\* session. Whatever the provider's answer parses to and whether or not the request
\* fails, a pending worker emits exactly one signal, finished or error; a finished
\* signal carries at least 1 and at most MaxCompletions entries, never an empty or a
\* longer list; the session stores exactly the list of a finished signal, and an
\* error leaves it as it was but for the worker leaving the pool
C29_OneOutcome ==
    \A w \in 1..Len(thread_pool) : \A failed \in BOOLEAN : \A parsed \in ParsedLists :
        LET signals == WorkerSignals(failed, parsed)
            rest == [Self EXCEPT !.thread_pool =
                        SubSeq(@, 1, w - 1) \o SubSeq(@, w + 1, Len(@))]
            after == WorkerRun(Self, w, failed, parsed)
        IN /\ Len(signals) = 1
           /\ signals[1].signal \in {"finished", "error"}
           /\ signals[1].signal = "finished" =>
                /\ Len(signals[1].completions) >= 1
                /\ Len(signals[1].completions) <= MaxCompletions
                /\ after.ai_completions = signals[1].completions
                /\ after.is_ai_mode
           /\ signals[1].signal = "error" => after = rest

\* the request has been answered by a list of four: no worker is left in the pool and
\* the session holds the first three entries as its suggestions
C29_Witness ==
    /\ thread_pool = <<>>
    /\ is_ai_mode
    /\ ai_suggestions = << <<"ok">>, <<"so", "~">>, <<"no">> >>
    /\ ai_completions = << <<"ok">>, <<"so", "~">>, <<"no">> >>

----------------------------------------------------------------------------
(* Properties of repeated entries *)

\* C31: a lattice cell is a set. In every state of the store and for every string s,
\* no cell of the lattice of s holds the same <<phrase, score>> pair at two positions,
\* and segment(s) returns no phrase of one score twice, also when different splits of
\* s give the same phrase.
C31_CellIsASet ==
    \A s \in SegmentQueries :
        \A dp \in {Lattice(word_dict, word_freq_dict, s, EmptyLattice)} :
            \A i \in 1..Len(dp) : NoDuplicates(dp[i])

\* segment('wuyi') has returned the phrase none-easy twice: once for the key wuyi at
\* score 120, once for the keys wu and yi at scores 70 + 50
C31_PairTwice ==
    /\ pinyin_buffer = <<"w", "u", "y", "i">>
    /\ full_candidates = Segment(word_dict, word_freq_dict, pinyin_buffer)
    /\ full_candidates = << <<"none", "easy">>, <<"none", "easy">> >>
    /\ Lattice(word_dict, word_freq_dict, pinyin_buffer, EmptyLattice)[5]
           = << <<<<"none", "easy">>, 120>>, <<<<"none", "easy">>, 120>> >>

\* C32: in every state of the store, for every prefix and every max_count,
\* DictionaryManager.get_candidates returns no word twice, also when a word is
\* registered under several keys that start with the prefix.
C32_PrefixMatchesOnce ==
    \A s \in Queries : \A max_count \in MaxCounts :
        NoDuplicates(DictGetCandidates(word_dict, word_freq_dict, s, max_count))

\* get_candidates('y') of the dictionary manager has returned the word easy twice:
\* once for its reading yi, once for its reading ye
C32_WordTwice ==
    /\ pinyin_buffer = <<"y">>
    /\ InList(<<"easy">>, Lookup(word_dict, <<"y", "i">>))
    /\ InList(<<"easy">>, Lookup(word_dict, <<"y", "e">>))
    /\ full_candidates = DictGetCandidates(word_dict, word_freq_dict, pinyin_buffer, -1)
    /\ full_candidates = << <<"easy">>, <<"easy">> >>

----------------------------------------------------------------------------
(* Further properties of the session *)

\* C33: backspace pressed in suggestion mode only leaves suggestion mode: the
\* suggestion list is cleared, nothing is emitted, and the buffer, the full candidate
\* list, the visible page, the page number and the active flag are what they were; no
\* letter is taken off the buffer.
C33_BackspaceLeavesSuggestions ==
    is_ai_mode =>
        LET after == OnBackspace(Self)
        IN /\ ~after.is_ai_mode
           /\ after.ai_completions = <<>>
           /\ after.emitted = <<>>
           /\ after.pinyin_buffer = pinyin_buffer
           /\ after.full_candidates = full_candidates
           /\ after.candidates = candidates
           /\ after.current_page = current_page
           /\ after.is_active = is_active
           /\ after.last_input_text = last_input_text

\* backspace is pressed in suggestion mode over a buffer of two letters shown on a
\* later page, and the two letters are still there afterwards
C33_Witness ==
    /\ is_ai_mode /\ ai_completions # <<>>
    /\ Len(pinyin_buffer) = 2 /\ current_page > 0
    /\ ~OnBackspace(Self).is_ai_mode
    /\ Len(OnBackspace(Self).pinyin_buffer) = 2

\* C34: two requests are at least the cooldown apart, and a refused double-Tab moves
\* nothing. ai_elapsed is the time since the last request (last_ai_request_time): a
\* step issues a request only when the cooldown has passed, issues one request at
\* most, and restarts the time with it; a step without a request never takes the time
\* back; and a double-Tab during the cooldown, or with neither a pending buffer nor a
\* remembered last text, issues no request, starts no worker and leaves the time.
C34_RequestsApart ==
    [][/\ requested' # <<>> =>
            /\ ai_elapsed >= ai_request_cooldown
            /\ ai_elapsed' = 0
            /\ Len(requested') = 1
            /\ Len(thread_pool') = Len(thread_pool) + 1
       /\ requested' = <<>> => ai_elapsed' >= ai_elapsed
       /\ (/\ KeyTab
           /\ tab_elapsed < tab_double_click_interval
           /\ \/ ai_elapsed < ai_request_cooldown
              \/ (~(is_active /\ pinyin_buffer # <<>>) /\ last_input_text = <<>>)) =>
            /\ requested' = <<>>
            /\ thread_pool' = thread_pool
            /\ ai_elapsed' = ai_elapsed]_vars

\* a second request has just been issued: the session is in the suggestion mode an
\* earlier request's answer put it in, and the time since the last request is 0 again
C34_Witness ==
    /\ requested # <<>>
    /\ is_ai_mode /\ ai_completions # <<>>
    /\ thread_pool # <<>>
    /\ ai_elapsed = 0

\* the session after n Tab presses in quick succession (no time passes between them)
RECURSIVE TabPresses(_, _)
TabPresses(s, n) == IF n = 0 THEN s ELSE OnTab(TabPresses(s, n - 1))

\* how many of n Tab presses in quick succession trigger the double-Tab action: a
\* press triggers when it finds the recorded Tab time less than the interval old
TabTriggers(s, n) ==
    Cardinality({k \in 1..n : TabPresses(s, k - 1).tab_elapsed < tab_double_click_interval})

C36_KeysActOnSuggestions ==
    (is_ai_mode /\ ai_completions # <<>>) =>
        /\ OnSpaceOrEnter(Self).emitted = << ai_completions[1] >>
        /\ OnSpaceOrEnter(Self).last_input_text = ai_completions[1]
        /\ \A digit \in DigitKeys :
            LET after == OnDigit(Self, digit)
            IN IF 1 <= digit /\ digit <= Len(ai_completions)
               THEN /\ after.emitted = << ai_completions[digit] >>
                    /\ after.last_input_text = ai_completions[digit]
                    /\ after = SelectCandidate(Self, digit - 1)
               ELSE after = Self

\* one suggestion is shown over a visible page of at least two candidates: digit 1
\* commits the suggestion, digit 2 commits nothing although the page has a second
\* candidate
C36_Witness ==
    /\ is_ai_mode /\ Len(ai_completions) = 1
    /\ is_active /\ Len(candidates) >= 2
    /\ OnDigit(Self, 1).emitted = << ai_completions[1] >>
    /\ OnDigit(Self, 2) = Self

\* C37: a key of no other branch (punctuation and the like). Pressed while composing
\* outside suggestion mode it commits the first candidate of the visible page when
\* there are candidates and commits nothing when there are none, and the session is
\* Idle afterwards either way; pressed in suggestion mode it only turns the mode off
\* and drops the suggestions, the buffer, the candidate lists, the page and the active
\* flag staying, and nothing is emitted.
C37_OtherKeyEndsComposition ==
    LET after == OnOtherKey(Self)
    IN /\ (~is_ai_mode /\ is_active) =>
            /\ IsIdle(after)
            /\ candidates # <<>> =>
                /\ after.emitted = << candidates[1] >>
                /\ after.emitted = << full_candidates[current_page * page_size + 1] >>
            /\ candidates = <<>> => after.emitted = <<>>
       /\ is_ai_mode =>
            /\ ~after.is_ai_mode
            /\ after.ai_completions = <<>>
            /\ after.emitted = <<>>
            /\ after.pinyin_buffer = pinyin_buffer
            /\ after.full_candidates = full_candidates
            /\ after.candidates = candidates
            /\ after.current_page = current_page
            /\ after.is_active = is_active

\* a composition showing a later page takes another key: the first candidate of that
\* page is committed and the session is Idle
C37_Witness ==
    /\ ~is_ai_mode /\ is_active /\ pinyin_buffer # <<>>
    /\ current_page > 0 /\ candidates # <<>>
    /\ OnOtherKey(Self).emitted = << candidates[1] >>
    /\ candidates[1] # full_candidates[1]
    /\ IsIdle(OnOtherKey(Self))

\* C38: in every reachable state of the session, suggestion mode is on exactly when
\* the suggestion list is non-empty, and the list holds at most MaxCompletions
\* entries.
C38_ModeIffSuggestions ==
    /\ is_ai_mode <=> ai_completions # <<>>
    /\ Len(ai_completions) <= MaxCompletions

\* an answer of four entries has put the session in suggestion mode over a pending
\* buffer, with three suggestions
C38_Witness ==
    /\ is_ai_mode
    /\ Len(ai_completions) = MaxCompletions
    /\ pinyin_buffer # <<>>

\* C39: in every state between two events, the session is active exactly when the
\* buffer is non-empty; when it is not active the full and the visible candidate list
\* are empty and the page is 0; when it is active the full candidate list is what
\* PinyinEngine.get_candidates gives for the buffer.
C39_ActiveIffBuffer ==
    /\ is_active <=> pinyin_buffer # <<>>
    /\ ~is_active =>
        /\ full_candidates = <<>>
        /\ candidates = <<>>
        /\ current_page = 0
    /\ is_active =>
        full_candidates = GetCandidates(word_dict, word_freq_dict, pinyin_buffer)

\* a composition of two letters shows a later page of the list the ranker gave for it,
\* after a suggestion was committed over it
C39_Witness ==
    /\ is_active /\ Len(pinyin_buffer) = 2
    /\ full_candidates # <<>> /\ current_page > 0
    /\ ~is_ai_mode /\ last_input_text = <<"ok">>
    /\ full_candidates = GetCandidates(word_dict, word_freq_dict, pinyin_buffer)

\* C40: Idle can always be reached by cancelling. From every reachable state two ESC
\* presses with no other event between them leave the session Idle and emit nothing:
\* in suggestion mode the first press turns the mode off and keeps the buffer, and the
\* second clears the composition if there is one; outside suggestion mode the first
\* press already leaves the session Idle.
C40_TwoEscReachIdle ==
    LET once == OnEsc(Self)
        twice == OnEsc(OnEsc(Self))
    IN /\ IsIdle(twice)
       /\ twice.emitted = <<>>
       /\ is_ai_mode =>
            /\ ~once.is_ai_mode
            /\ once.pinyin_buffer = pinyin_buffer
            /\ IsIdle(once) <=> pinyin_buffer = <<>>
       /\ ~is_ai_mode => IsIdle(once)

\* suggestion mode over a pending buffer: one ESC press is not enough to reach Idle,
\* two are
C40_Witness ==
    /\ is_ai_mode /\ pinyin_buffer # <<>> /\ full_candidates # <<>>
    /\ ~IsIdle(OnEsc(Self))
    /\ OnEsc(Self).is_active
    /\ IsIdle(OnEsc(OnEsc(Self)))

====
